---------------------------- MODULE Spec2Model ----------------------------
(***************************************************************************)
(* Transcript editing and segment replacement.                             *)
(*                                                                         *)
(* The TranscriptPanel component keeps a list of pending text changes,     *)
(* overlays them on the fetched transcript (getCurrentText,                *)
(* applyChangesToText) and posts them as one batch (handleApplyChanges).   *)
(* The segment replacement engine behind POST /projects/{id}/apply-changes *)
(* (edit resolver, synthesizer gateway, timeline reconciler, splicer) is   *)
(* not part of the sources at hand; its operators are modelled from the    *)
(* specification and are marked as such in the model map.                  *)
(*                                                                         *)
(* A text is a sequence of one-character strings.  Times are integers      *)
(* (ticks of 0.1 s).                                                       *)
(***************************************************************************)
EXTENDS Integers, Sequences, FiniteSets, TLC

VARIABLES
    \* ---- TranscriptPanel and the stores it reads
    currentTranscription,  \* transcription store: null or [segment id -> text]
    changes,               \* useState<TextChange[]>: the pending edits
    editingState,          \* useState<EditingState | null>
    isApplyingChanges,     \* useState(false)
    applyPc,               \* position of handleApplyChanges
    sentBatch,             \* body of the last POST .../apply-changes (the changes
                           \* in the closure of the apply that sent it)
    postCount,             \* number of POST .../apply-changes requests sent
    applyCount,            \* number of applies the user has started
    nextId,                \* source of TextChange ids
    lastResult,            \* the terminal result of the last apply (its toast)
    resultCount,           \* number of terminal results delivered
    \* ---- the backend, as the panel's requests see it
    serverText,            \* the live transcript text, per segment
    mediaVersion,          \* version of the media artifact of the project
    \* ---- the stores
    currentProject,        \* project store: media version of currentProject
    projects,              \* project store: media version of the project's
                           \* entry in projects
    tLoading,              \* transcription store: isLoading
    tError,                \* transcription store: error is set
    tFetches,              \* fetchTranscription calls awaiting their response
    \* ---- the segment replacement engine, one batch
    eSegments,             \* the transcript: segments with startTime, endTime
    eEdited,               \* indices of the segments the edit plan changes
    eSynth,                \* per edited segment: the state of its synthesis call
    eAudio,                \* edited segments whose synthesized audio is held
    eState,                \* position of the batch
    eTimeline,             \* the ReconciledTimeline, once computed
    eOutput,               \* the OutputMedia, once assembled
    eReports,              \* the terminal results reported for the batch
    \* ---- the Speech Synthesizer Gateway
    gCalls,                \* per caller: its synthesize call
    gCache,                \* cache: the keys with a SynthesisResult
    gNetCalls,             \* per key: network calls issued since the key's
                           \* cache entry last expired
    gNetOk,                \* per key: those of them that succeeded
    \* ---- ApiClient, local storage and the auth store
    auth_token,            \* localStorage auth_token, 0 when absent
    refresh_token,         \* localStorage refresh_token, 0 when absent
    authUser,              \* auth store: user, 0 for null
    isAuthenticated,       \* auth store: isAuthenticated
    reqs,                  \* per call of ApiClient.request: its position
    tokenSeq,              \* the last token the auth server has issued
    \* ---- media URLs
    VITE_API_BASE_URL,     \* import.meta.env.VITE_API_BASE_URL
    video_url,             \* ProjectApiResponse.video_url of the last response
    videoUrl,              \* Project.videoUrl in the store
    cardVideoUrl,          \* ProjectCard: const videoUrl
    playerVideoUrl,        \* VideoPlayer: const videoUrl
    \* ---- App, its routes and the calls of the auth store
    isAuthChecked,         \* App: useState(false)
    location,              \* the router's location
    persisted,             \* localStorage 'auth-store' (persist middleware)
    callPc,                \* per call of the auth store: who awaits it
    loginPc,               \* login / register: idle or awaiting
    sessionEnded,          \* logout has run and no login has succeeded since
    \* ---- project store (list and detail view)
    statusFilter,          \* ProjectsPage: statusFilter and searchQuery
    projFilters,           \* project store: filters
    currentPage,           \* project store: currentPage
    projectList,           \* project store: projects, by the query they answer
    fetchCalls,            \* the calls of fetchProjects in the order issued
    projLoading,           \* project store: isLoading
    projError,             \* project store: error is set
    routeProjectId,        \* useParams().projectId, 0 on the list
    currentProjectId,      \* project store: currentProject.id, 0 for null
    detailLoading,         \* ProjectDetailView: isLoading
    projectFetches,        \* the calls of fetchProject in flight
    projectFetchCount      \* calls of fetchProject made

panelVars == <<changes, editingState, isApplyingChanges,
               applyPc, sentBatch, postCount, applyCount, nextId, lastResult,
               resultCount>>
storeVars == <<currentTranscription, currentProject, projects, tLoading, tError,
               tFetches>>
serverVars == <<serverText, mediaVersion>>
engineVars == <<eSegments, eEdited, eSynth, eAudio, eState, eTimeline, eOutput,
                eReports>>
gatewayVars == <<gCalls, gCache, gNetCalls, gNetOk>>
backendVars == <<serverVars, engineVars, gatewayVars>>
clientVars == <<auth_token, refresh_token, authUser, isAuthenticated, reqs,
                tokenSeq>>
urlVars == <<VITE_API_BASE_URL, video_url, videoUrl, cardVideoUrl, playerVideoUrl>>
appVars == <<isAuthChecked, location, persisted, callPc, loginPc, sessionEnded>>
listVars == <<statusFilter, projFilters, currentPage, projectList, fetchCalls, projLoading,
              projError, routeProjectId, currentProjectId, detailLoading,
              projectFetches, projectFetchCount>>
shellVars == <<appVars, listVars>>
vars == <<panelVars, storeVars, backendVars, clientVars, urlVars, shellVars>>

\* null | T is the empty sequence or a one-element sequence.
Null == <<>>
Some(x) == <<x>>

\* ------------------------------------------------------------------ bounds
MaxLen == 3        \* longest segment text drawn
MaxNewLen == 2     \* longest replacement text typed
MaxEdits == 2      \* longest batch drawn for the text functions
MaxChanges == 2    \* most changes saved in one run
MaxPosts == 1      \* most applies the user starts in one run
MaxReqs == 2       \* calls of ApiClient.request in one run
MaxSegs == 3       \* most segments of a transcript
MaxTime == 5       \* media duration, in ticks
MaxDur == 3        \* longest measured duration of a synthesized segment
ConcurrencyLimit == 2   \* most synthesis calls of a batch running at once
MaxCallers == 3    \* callers of the gateway
MaxAttempts == 3   \* attempts of the gateway's retry policy
ProviderTextLimit == 2  \* longest text the provider accepts

SegIds == {"s1", "s2"}

Min(a, b) == IF a <= b THEN a ELSE b
Max(a, b) == IF a >= b THEN a ELSE b

\* ------------------------------------------------------- JavaScript strings
\* String.prototype.substring(a, b): both arguments are clamped to
\* [0, length] and swapped when a > b.
Clamp(t, i) == Max(0, Min(i, Len(t)))

Substring(t, a, b) ==
    LET lo == Min(Clamp(t, a), Clamp(t, b))
        hi == Max(Clamp(t, a), Clamp(t, b))
    IN  SubSeq(t, lo + 1, hi)

\* String.prototype.substring(a): from a (clamped) to the end.
SubstringFrom(t, a) == SubSeq(t, Clamp(t, a) + 1, Len(t))

\* String.prototype.indexOf(s): the first position where s occurs, or -1.
\* The empty string occurs at 0.
OccursAt(t, s, i) == i + Len(s) <= Len(t) /\ SubSeq(t, i + 1, i + Len(s)) = s

IndexOf(t, s) ==
    IF \E i \in 0..Len(t) : OccursAt(t, s, i)
    THEN CHOOSE i \in 0..Len(t) :
            OccursAt(t, s, i) /\ \A j \in 0..(i - 1) : ~OccursAt(t, s, j)
    ELSE -1

\* String.prototype.trim() === '': the text holds only white space.
IsBlank(t) == \A i \in 1..Len(t) : t[i] = " "

\* ------------------------------------------------------------ TextChange
\* interface TextChange; timestamp and changeTime are display strings and
\* take no part in any computation.
TextChange(id, tid, old, new, s, e) ==
    [id |-> id, transcriptId |-> tid, oldText |-> old, newText |-> new,
     startIndex |-> s, endIndex |-> e]

\* changes.filter(c => c.transcriptId === transcript.id)
RECURSIVE ChangesOf(_, _)
ChangesOf(cs, tid) ==
    IF cs = <<>> THEN <<>>
    ELSE IF Head(cs).transcriptId = tid
         THEN <<Head(cs)>> \o ChangesOf(Tail(cs), tid)
         ELSE ChangesOf(Tail(cs), tid)

\* [...cs].sort((a, b) => a.startIndex - b.startIndex): Array.prototype.sort
\* is stable, so changes with equal startIndex keep their list order.
RECURSIVE InsertSorted(_, _)
InsertSorted(sorted, c) ==
    IF sorted = <<>> THEN <<c>>
    ELSE IF Head(sorted).startIndex <= c.startIndex
         THEN <<Head(sorted)>> \o InsertSorted(Tail(sorted), c)
         ELSE <<c>> \o sorted

RECURSIVE SortByStartIndex(_)
SortByStartIndex(cs) ==
    IF cs = <<>> THEN <<>>
    ELSE InsertSorted(SortByStartIndex(SubSeq(cs, 1, Len(cs) - 1)), cs[Len(cs)])

\* One round of the forEach of getCurrentText: substitute at the adjusted
\* indices.
SubstituteAt(workingText, change, offset) ==
    Substring(workingText, 0, change.startIndex + offset)
        \o change.newText
        \o SubstringFrom(workingText, change.endIndex + offset)

\* (a variant that forgets the length change of a substitution)
OffsetDeltaNoLength(change) == 0

\* offset += change.newText.length - (change.endIndex - change.startIndex)
OffsetDelta(change) ==
    Len(change.newText) - (change.endIndex - change.startIndex)

RECURSIVE ApplySorted(_, _, _)
ApplySorted(workingText, sorted, offset) ==
    IF sorted = <<>> THEN workingText
    ELSE ApplySorted(SubstituteAt(workingText, Head(sorted), offset),
                     Tail(sorted),
                     offset + OffsetDelta(Head(sorted)))

\* getCurrentText(transcript), with the component's changes passed in.
getCurrentText(text, tid, cs) ==
    LET transcriptChanges == ChangesOf(cs, tid)
    IN  IF transcriptChanges = <<>> THEN text
        ELSE ApplySorted(text, SortByStartIndex(transcriptChanges), 0)

\* ------------------------------------------------------ applyChangesToText
\* interface TextSegment; changeId 0 stands for an absent changeId.
TextSegment(text, isChanged, changeId) ==
    [text |-> text, isChanged |-> isChanged, changeId |-> changeId]

\* (a variant that leaves currentIndex at the start of the new text)
PreviewStepKeepsIndex(st, change) ==
    LET adjustedStartIndex == change.startIndex + st.offset
        unchangedText == Substring(st.workingText, st.currentIndex, adjustedStartIndex)
        before == IF st.currentIndex < adjustedStartIndex /\ unchangedText # <<>>
                  THEN <<[text |-> unchangedText, isChanged |-> FALSE, changeId |-> 0]>>
                  ELSE <<>>
    IN  [segments    |-> st.segments \o before
                            \o <<[text |-> change.newText, isChanged |-> TRUE,
                                  changeId |-> change.id]>>,
         currentIndex |-> adjustedStartIndex,
         workingText |-> SubstituteAt(st.workingText, change, st.offset),
         offset      |-> st.offset + OffsetDelta(change)]

\* One round of the forEach of applyChangesToText on the loop state
\* (segments, currentIndex, workingText, offset).
PreviewStep(st, change) ==
    LET adjustedStartIndex == change.startIndex + st.offset
        unchangedText == Substring(st.workingText, st.currentIndex, adjustedStartIndex)
        before == IF st.currentIndex < adjustedStartIndex /\ unchangedText # <<>>
                  THEN <<TextSegment(unchangedText, FALSE, 0)>>
                  ELSE <<>>
    IN  [segments    |-> st.segments \o before
                            \o <<TextSegment(change.newText, TRUE, change.id)>>,
         currentIndex |-> adjustedStartIndex + Len(change.newText),
         workingText |-> SubstituteAt(st.workingText, change, st.offset),
         offset      |-> st.offset + OffsetDelta(change)]

RECURSIVE PreviewLoop(_, _)
PreviewLoop(st, sorted) ==
    IF sorted = <<>> THEN st
    ELSE PreviewLoop(PreviewStep(st, Head(sorted)), Tail(sorted))

applyChangesToText(originalText, transcriptChanges) ==
    IF transcriptChanges = <<>>
    THEN <<TextSegment(originalText, FALSE, 0)>>
    ELSE LET st == PreviewLoop([segments |-> <<>>, currentIndex |-> 0,
                                workingText |-> originalText, offset |-> 0],
                               SortByStartIndex(transcriptChanges))
             remainingText == SubstringFrom(st.workingText, st.currentIndex)
         IN  IF st.currentIndex < Len(st.workingText) /\ remainingText # <<>>
             THEN st.segments \o <<TextSegment(remainingText, FALSE, 0)>>
             ELSE st.segments

RECURSIVE ConcatParts(_)
ConcatParts(parts) ==
    IF parts = <<>> THEN <<>> ELSE Head(parts).text \o ConcatParts(Tail(parts))

\* renderTextWithChanges: the characters the user sees, and can select, in
\* the span of one transcript item.
DisplayedText(text, tid, cs) ==
    ConcatParts(applyChangesToText(text, ChangesOf(cs, tid)))

\* ------------------------------------------------------------ input sets
Letters == <<"a", "b", "c", "d", "e", "f">>

\* The text of n pairwise different characters.
Prefix(n) == SubSeq(Letters, 1, n)

RECURSIVE Xs(_)
Xs(n) == IF n = 0 THEN <<>> ELSE <<"x">> \o Xs(n - 1)

\* What the user types into the tooltip's input: nothing, or a text of
\* MaxNewLen characters (not typing keeps the selected text).
NewTexts == {Xs(0), Xs(MaxNewLen)}

\* Texts over {a, b} of length 1..n: characters repeat, so a selected
\* string may occur more than once.
RECURSIVE TextsOfLen(_)
TextsOfLen(n) ==
    IF n = 0 THEN {<<>>}
    ELSE {t \o <<c>> : t \in TextsOfLen(n - 1), c \in {"a", "b"}}

SeqsUpTo(S, n) == UNION {[1..k -> S] : k \in 0..n}

\* ------------------------------------------------------------ Edit Resolver
\* The server side of POST /projects/{id}/apply-changes.

\* edit[i].endIndex > edit[i+1].startIndex for two neighbours of a group
\* sorted by startIndex.
OverlapsIn(sorted) ==
    \E i \in 1..(Len(sorted) - 1) : sorted[i].endIndex > sorted[i + 1].startIndex

\* oldText does not match the live segment text at [startIndex, endIndex).
TextMismatch(text, c) ==
    ~(/\ 0 <= c.startIndex
      /\ c.startIndex <= c.endIndex
      /\ c.endIndex <= Len(text)
      /\ SubSeq(text, c.startIndex + 1, c.endIndex) = c.oldText)

\* The outcome of validating a batch against the live transcript.
ResolveError(live, batch) ==
    IF \E i \in 1..Len(batch) : batch[i].transcriptId \notin DOMAIN live
    THEN "UnknownSegment"
    ELSE IF \E tid \in DOMAIN live : OverlapsIn(SortByStartIndex(ChangesOf(batch, tid)))
    THEN "OverlappingEdits"
    ELSE IF \E i \in 1..Len(batch) : TextMismatch(live[batch[i].transcriptId], batch[i])
    THEN "TextMismatch"
    ELSE "ok"

\* The edit plan: one new text per segment, by left-to-right substitution
\* with a running length offset.
EditPlan(live, batch) ==
    [tid \in DOMAIN live |->
        ApplySorted(live[tid], SortByStartIndex(ChangesOf(batch, tid)), 0)]

\* ------------------------------------------------------- Timeline Reconciler
Segment(s, e) == [startTime |-> s, endTime |-> e]

\* The transcripts of at most k segments that start at or after pos: sorted
\* by startTime, non-overlapping, each of positive duration, within
\* [0, MaxTime].  Gaps (silence) may separate the segments.
RECURSIVE TranscriptsFrom(_, _)
TranscriptsFrom(pos, k) ==
    {<<>>} \cup
    (IF k = 0 THEN {}
     ELSE UNION {UNION {{<<Segment(s, e)>> \o rest : rest \in TranscriptsFrom(e, k - 1)} :
                            e \in (s + 1)..MaxTime} :
                    s \in pos..(MaxTime - 1)})

mediaDuration == MaxTime

\* A timeline entry.  seg is the index of the segment, 0 for a silence gap.
Entry(kind, seg, srcStart, srcEnd, outStart, outEnd) ==
    [kind |-> kind, seg |-> seg,
     sourceSpan |-> [start |-> srcStart, end |-> srcEnd],
     outputStart |-> outStart, outputEnd |-> outEnd]

OldDuration(segs, i) == segs[i].endTime - segs[i].startTime

\* (a variant that leaves an edited segment's span at its old length)
NewDurationKeepsOld(segs, measured, i) == OldDuration(segs, i)

\* The length of segment i in the output: measuredDuration when edited, the
\* original duration otherwise.
NewDuration(segs, measured, i) ==
    IF i \in DOMAIN measured THEN measured[i] ELSE OldDuration(segs, i)

\* (a variant that puts every entry at its original start)
OutputStartUnshifted(srcPos, outPos) == srcPos

\* Where an entry starts in the output: where the previous one ended.
OutputStart(srcPos, outPos) == outPos

\* (a variant that leaves the silence before a segment out of the shift)
AdvanceDropsGap(outPos, gapLen, newDur) == outPos + newDur

\* The output position after a gap and the segment that follows it.
Advance(outPos, gapLen, newDur) == outPos + gapLen + newDur

\* delta = newDuration - oldDuration, accumulated from segment to segment:
\* walk the segments in order from source position srcPos and output
\* position outPos; a gap before a segment, and after the last one, is an
\* entry of its own and keeps its length.
RECURSIVE BuildTimeline(_, _, _, _, _)
BuildTimeline(segs, measured, i, srcPos, outPos) ==
    IF i > Len(segs)
    THEN IF srcPos < mediaDuration
         THEN <<Entry("original", 0, srcPos, mediaDuration,
                      OutputStart(srcPos, outPos),
                      OutputStart(srcPos, outPos) + (mediaDuration - srcPos))>>
         ELSE <<>>
    ELSE LET gapLen == segs[i].startTime - srcPos
             gap == IF gapLen > 0
                    THEN <<Entry("original", 0, srcPos, segs[i].startTime,
                                 OutputStart(srcPos, outPos),
                                 OutputStart(srcPos, outPos) + gapLen)>>
                    ELSE <<>>
             segStart == OutputStart(segs[i].startTime, outPos + gapLen)
             segEnd == segStart + NewDuration(segs, measured, i)
         IN  gap
             \o <<Entry(IF i \in DOMAIN measured THEN "synthesized" ELSE "original",
                        i, segs[i].startTime, segs[i].endTime, segStart, segEnd)>>
             \o BuildTimeline(segs, measured, i + 1, segs[i].endTime,
                              Advance(outPos, gapLen,
                                      NewDuration(segs, measured, i)))

Reconcile(segs, measured) == BuildTimeline(segs, measured, 1, 0, 0)

\* The validation before the timeline is handed to the splicer.
Contiguous(timeline) ==
    /\ timeline # <<>> => timeline[1].outputStart = 0
    /\ \A i \in 1..(Len(timeline) - 1) :
          timeline[i].outputEnd = timeline[i + 1].outputStart

TotalDuration(timeline) ==
    IF timeline = <<>> THEN 0 ELSE timeline[Len(timeline)].outputEnd

\* ------------------------------------------------------ the batch pipeline
\* Per edited segment: st is "pending", "running", "ok", "failed" or
\* "cancelled"; measuredDuration is set with "ok".
SynthState(st, d) == [st |-> st, measuredDuration |-> d]

\* The measured durations of the synthesis results at hand.
Measured == [i \in {j \in eEdited : eSynth[j].st = "ok"} |-> eSynth[i].measuredDuration]

\* (a variant that goes on with the first result)
SomeResultAvailable == \E i \in eEdited : eSynth[i].st = "ok"

\* All synthesis results of the batch are available.
AllResultsAvailable == \A i \in eEdited : eSynth[i].st = "ok"

\* A synthesis call of the batch is started (the calls of independent
\* segments run concurrently).
SynthStart(i) ==
    /\ eState = "synthesizing"
    /\ i \in eEdited
    /\ eSynth[i].st = "pending"
    /\ Cardinality({j \in eEdited : eSynth[j].st = "running"}) < ConcurrencyLimit
    /\ eSynth' = [eSynth EXCEPT ![i] = SynthState("running", 0)]
    /\ UNCHANGED <<eSegments, eEdited, eAudio, eState, eTimeline, eOutput, eReports>>
    /\ UNCHANGED <<panelVars, storeVars, serverVars, urlVars, shellVars, gatewayVars, clientVars>>

\* A synthesis call returns its SynthesisResult.  The result of a call that
\* outlives the batch is dropped.
SynthOk(i, d) ==
    /\ i \in eEdited
    /\ eSynth[i].st = "running"
    /\ IF eState = "synthesizing"
       THEN /\ eSynth' = [eSynth EXCEPT ![i] = SynthState("ok", d)]
            /\ eAudio' = eAudio \cup {i}
       ELSE /\ eSynth' = [eSynth EXCEPT ![i] = SynthState("cancelled", 0)]
            /\ eAudio' = eAudio
    /\ UNCHANGED <<eSegments, eEdited, eState, eTimeline, eOutput, eReports>>
    /\ UNCHANGED <<panelVars, storeVars, serverVars, urlVars, shellVars, gatewayVars, clientVars>>

\* A synthesis call fails terminally (not retryable, or out of retries): the
\* batch is aborted and reported as one failure, the audio of the other
\* segments is discarded.
SynthFail(i) ==
    /\ i \in eEdited
    /\ eSynth[i].st = "running"
    /\ IF eState = "synthesizing"
       THEN /\ eSynth' = [eSynth EXCEPT ![i] = SynthState("failed", 0)]
            /\ eState' = "failed"
            /\ eAudio' = {}
            /\ eReports' = Append(eReports, "SynthesisFailed")
       ELSE /\ eSynth' = [eSynth EXCEPT ![i] = SynthState("cancelled", 0)]
            /\ UNCHANGED <<eState, eAudio, eReports>>
    /\ UNCHANGED <<eSegments, eEdited, eTimeline, eOutput>>
    /\ UNCHANGED <<panelVars, storeVars, serverVars, urlVars, shellVars, gatewayVars, clientVars>>

\* The reconciler runs; a timeline that is not contiguous is a fatal error.
ReconcileStep ==
    /\ eState = "synthesizing"
    /\ AllResultsAvailable
    /\ LET timeline == Reconcile(eSegments, Measured)
       IN  IF Contiguous(timeline)
           THEN eTimeline' = Some(timeline) /\ eState' = "reconciled"
                   /\ eReports' = eReports
           ELSE eTimeline' = eTimeline /\ eState' = "failed"
                   /\ eReports' = Append(eReports, "ReconciliationError")
    /\ UNCHANGED <<eSegments, eEdited, eSynth, eAudio, eOutput>>
    /\ UNCHANGED <<panelVars, storeVars, serverVars, urlVars, shellVars, gatewayVars, clientVars>>

\* The splicer assembles one buffer as long as the timeline.
SpliceStep ==
    /\ eState = "reconciled"
    /\ eOutput' = Some([length |-> TotalDuration(eTimeline[1]),
                        synthesized |-> eAudio])
    /\ eState' = "spliced"
    /\ UNCHANGED <<eSegments, eEdited, eSynth, eAudio, eTimeline, eReports>>
    /\ UNCHANGED <<panelVars, storeVars, serverVars, urlVars, shellVars, gatewayVars, clientVars>>

\* The remuxer writes the new artifact, or fails with RemuxError.
RemuxStep(ok) ==
    /\ eState = "spliced"
    /\ eState' = IF ok THEN "done" ELSE "failed"
    /\ eReports' = Append(eReports, IF ok THEN "success" ELSE "RemuxError")
    /\ UNCHANGED <<eSegments, eEdited, eSynth, eAudio, eTimeline, eOutput>>
    /\ UNCHANGED <<panelVars, storeVars, serverVars, urlVars, shellVars, gatewayVars, clientVars>>

EngineIdle ==
    /\ eSegments = <<>>
    /\ eEdited = {}
    /\ eSynth = <<>>
    /\ eAudio = {}
    /\ eState = "idle"
    /\ eTimeline = Null
    /\ eOutput = Null
    /\ eReports = <<>>

\* ------------------------------------------------ Speech Synthesizer Gateway
Callers == 1..MaxCallers

Key(segmentId, text, voiceProfile) ==
    [segmentId |-> segmentId, text |-> text, voiceProfile |-> voiceProfile]

NoKey == Key("", <<>>, "")

\* The keys that are synthesized: two valid ones, one with an empty text and
\* one with a text over the provider limit.
Keys == {Key("s1", Xs(1), "v"), Key("s2", Xs(1), "v"),
         Key("s1", Xs(0), "v"), Key("s1", Xs(ProviderTextLimit + 1), "v")}

\* Validation errors: empty text, text exceeding the provider limit.
Valid(key) == Len(key.text) > 0 /\ Len(key.text) <= ProviderTextLimit

\* A synthesize call.  attempt counts the network calls it has issued, log
\* lists what it got back, owner is the caller whose request it shares.
Call(st, key, attempt, log, owner) ==
    [st |-> st, key |-> key, attempt |-> attempt, log |-> log, owner |-> owner]

IdleCall == Call("idle", NoKey, 0, <<>>, 0)

InFlight(c) == gCalls[c].st \in {"network", "backoff"}

\* (a variant without deduplication)
InFlightOwnerNone(key) == 0

\* The caller whose request for the key is in flight, 0 if there is none.
InFlightOwner(key) ==
    IF \E c \in Callers : InFlight(c) /\ gCalls[c].key = key
    THEN CHOOSE c \in Callers : InFlight(c) /\ gCalls[c].key = key
    ELSE 0

CacheLookup(key) == key \in gCache

\* (a variant that retries whatever failed)
RetryableAlways(kind) == TRUE

\* Transient failures (timeouts, 5xx, rate-limit responses) are retried.
Retryable(kind) == kind = "transient"

\* synthesize(segmentId, text, voiceProfile): validation, cache lookup,
\* joining the request in flight for the key, or the first network call.
Synthesize(c, key) ==
    /\ gCalls[c].st = "idle"
    /\ c > 1 => gCalls[c - 1].st # "idle"    \* callers numbered by arrival
    /\ IF ~Valid(key)
       THEN /\ gCalls' = [gCalls EXCEPT ![c] = Call("failed", key, 0, <<"invalid">>, 0)]
            /\ UNCHANGED gNetCalls
       ELSE IF CacheLookup(key)
       THEN /\ gCalls' = [gCalls EXCEPT ![c] = Call("ok", key, 0, <<"cached">>, 0)]
            /\ UNCHANGED gNetCalls
       ELSE IF InFlightOwner(key) # 0
       THEN /\ gCalls' = [gCalls EXCEPT ![c] =
                             Call("joined", key, 0, <<>>, InFlightOwner(key))]
            /\ UNCHANGED gNetCalls
       ELSE /\ gCalls' = [gCalls EXCEPT ![c] = Call("network", key, 1, <<>>, 0)]
            /\ gNetCalls' = [gNetCalls EXCEPT ![key] = @ + 1]
    /\ UNCHANGED <<gCache, gNetOk>>
    /\ UNCHANGED <<panelVars, storeVars, serverVars, urlVars, shellVars, engineVars, clientVars>>

\* The calls after caller c's request ended with st: its own and those of
\* the callers that share it.
Settle(c, st, kind) ==
    [d \in Callers |->
        IF d = c
        THEN [gCalls[d] EXCEPT !.st = st, !.log = Append(@, kind)]
        ELSE IF gCalls[d].st = "joined" /\ gCalls[d].owner = c
        THEN [gCalls[d] EXCEPT !.st = st, !.log = <<"shared">>]
        ELSE gCalls[d]]

\* The network call returns audio: the result is cached.
NetOk(c) ==
    /\ gCalls[c].st = "network"
    /\ gCalls' = Settle(c, "ok", "ok")
    /\ gCache' = gCache \cup {gCalls[c].key}
    /\ gNetOk' = [gNetOk EXCEPT ![gCalls[c].key] = @ + 1]
    /\ UNCHANGED gNetCalls
    /\ UNCHANGED <<panelVars, storeVars, serverVars, urlVars, shellVars, engineVars, clientVars>>

\* The network call fails, kind is "transient" or "permanent".
NetFail(c, kind) ==
    /\ gCalls[c].st = "network"
    /\ IF Retryable(kind) /\ gCalls[c].attempt < MaxAttempts
       THEN gCalls' = [gCalls EXCEPT ![c].st = "backoff",
                                     ![c].log = Append(@, kind)]
       ELSE gCalls' = Settle(c, "failed", kind)
    /\ UNCHANGED <<gCache, gNetCalls, gNetOk>>
    /\ UNCHANGED <<panelVars, storeVars, serverVars, urlVars, shellVars, engineVars, clientVars>>

\* The backoff is over: the next attempt.
RetryAfterBackoff(c) ==
    /\ gCalls[c].st = "backoff"
    /\ gCalls' = [gCalls EXCEPT ![c].st = "network", ![c].attempt = @ + 1]
    /\ gNetCalls' = [gNetCalls EXCEPT ![gCalls[c].key] = @ + 1]
    /\ UNCHANGED <<gCache, gNetOk>>
    /\ UNCHANGED <<panelVars, storeVars, serverVars, urlVars, shellVars, engineVars, clientVars>>

\* The cache entry of a key expires.
CacheExpire(key) ==
    /\ key \in gCache
    /\ gCache' = gCache \ {key}
    /\ gNetCalls' = [gNetCalls EXCEPT ![key] = 0]
    /\ gNetOk' = [gNetOk EXCEPT ![key] = 0]
    /\ UNCHANGED gCalls
    /\ UNCHANGED <<panelVars, storeVars, serverVars, urlVars, shellVars, engineVars, clientVars>>

GatewayIdle ==
    /\ gCalls = [c \in Callers |-> IdleCall]
    /\ gCache = {}
    /\ gNetCalls = [k \in Keys |-> 0]
    /\ gNetOk = [k \in Keys |-> 0]

\* ------------------------------------------------------------------ ApiClient
Reqs == 1..MaxReqs

\* A call of ApiClient.request.  pc: "idle", "fetch" (the request is out),
\* "refresh" (POST /auth/refresh is out), "retry" (the request is out again),
\* "done".  bearer: the token of the Authorization header, 0 for none.
\* sends: fetches of the request.  refreshes: calls of refreshToken.
\* sentRefresh: the refresh token refreshToken read.  issued: the access
\* token of the refresh response.  result: the ApiResponse returned.
Req(pc, skipAuth, bearer, sends, refreshes, sentRefresh, issued, result) ==
    [pc |-> pc, skipAuth |-> skipAuth, bearer |-> bearer, sends |-> sends,
     refreshes |-> refreshes, sentRefresh |-> sentRefresh, issued |-> issued,
     result |-> result]

IdleReq == Req("idle", FALSE, 0, 0, 0, 0, 0, "none")

\* getAuthToken, for the header of a call that does not skip auth.
AuthHeader(skipAuth) == IF skipAuth THEN 0 ELSE auth_token

\* request up to its first await: the header is built and the fetch is out.
request(r, skipAuth) ==
    /\ reqs[r].pc \in {"idle", "done"}
    /\ reqs' = [reqs EXCEPT ![r] =
                   Req("fetch", skipAuth, AuthHeader(skipAuth), 1, 0, 0, 0, "none")]
    /\ UNCHANGED <<auth_token, refresh_token, authUser, isAuthenticated, tokenSeq>>

\* removeAuthToken (also ApiClient.logout)
removeAuthToken ==
    /\ auth_token' = 0
    /\ refresh_token' = 0

\* useAuthStore.logout, what the 'auth:logout' listener runs.
logout ==
    /\ removeAuthToken
    /\ authUser' = 0
    /\ isAuthenticated' = FALSE

\* The ApiResponse of a request that could not be authenticated.
AuthenticationRequired(req) ==
    [req EXCEPT !.pc = "done", !.result = "Authentication required"]

\* The outcomes of POST /auth/refresh: a new access token, with or without
\* a new refresh token; an ok response without access_token; a non-ok
\* response; no response.
RefreshOutcomes == {"ok", "okRotated", "noAccessToken", "notOk", "networkError"}

\* (a variant that treats a 401 of the retry like the first one)
IsFirstFetchAlways(req) == req.pc \in {"fetch", "retry"}

\* The response at hand is that of the first fetch of the call.
IsFirstFetch(req) == req.pc = "fetch"

\* response.status === 401 && !skipAuth
WantsRefresh(req) == ~req.skipAuth

\* The fetch is answered with 401 and the call does not skip auth:
\* refreshToken starts.  Without a stored refresh token it returns false at
\* once, 'auth:logout' is dispatched and the call returns.
Unauthorized(r) ==
    /\ IsFirstFetch(reqs[r])
    /\ reqs[r].pc \in {"fetch", "retry"}
    /\ WantsRefresh(reqs[r])
    /\ IF refresh_token = 0
       THEN /\ reqs' = [reqs EXCEPT ![r] =
                           AuthenticationRequired([@ EXCEPT !.refreshes = @ + 1])]
            /\ logout
       ELSE /\ reqs' = [reqs EXCEPT ![r].pc = "refresh",
                                    ![r].refreshes = @ + 1,
                                    ![r].sentRefresh = refresh_token]
            /\ UNCHANGED <<auth_token, refresh_token, authUser, isAuthenticated>>
    /\ UNCHANGED tokenSeq

\* headers.set('Authorization', `Bearer ${this.getAuthToken()}`)
RetryBearer(oldBearer, stored) == stored

\* (a variant that goes on after a failed refresh)
AfterFailedRefreshRetries(req) ==
    [req EXCEPT !.pc = "retry", !.sends = @ + 1]

\* The call after refreshToken has returned false.
AfterFailedRefresh(req) == AuthenticationRequired(req)

\* POST /auth/refresh is answered.  On success setTokens stores the new
\* tokens and the request is sent again; otherwise removeAuthToken,
\* 'auth:logout', and the call returns.
RefreshAnswered(r, outcome) ==
    /\ reqs[r].pc = "refresh"
    /\ IF outcome \in {"ok", "okRotated"}
       THEN /\ tokenSeq' = tokenSeq + 1
            /\ auth_token' = tokenSeq + 1
            /\ refresh_token' = IF outcome = "okRotated" THEN tokenSeq + 1
                                ELSE reqs[r].sentRefresh
            /\ reqs' = [reqs EXCEPT ![r].pc = "retry",
                                    ![r].issued = tokenSeq + 1,
                                    ![r].bearer = RetryBearer(@, tokenSeq + 1),
                                    ![r].sends = @ + 1]
            /\ UNCHANGED <<authUser, isAuthenticated>>
       ELSE /\ reqs' = [reqs EXCEPT ![r] = AfterFailedRefresh(@)]
            /\ logout
            /\ UNCHANGED tokenSeq

\* What the call returns for the response at hand: 200 with success,
\* an error response ("error401" for status 401), or no response.
Statuses == {"ok", "error", "error401", "Network error"}

\* The request, or its retry, is answered for good.  A 401 ends the call
\* here when auth is skipped or when it answers the retry.
Answered(r, status) ==
    /\ reqs[r].pc \in {"fetch", "retry"}
    /\ status = "error401" => ~(IsFirstFetch(reqs[r]) /\ WantsRefresh(reqs[r]))
    /\ reqs' = [reqs EXCEPT ![r].pc = "done", ![r].result = status]
    /\ UNCHANGED <<auth_token, refresh_token, authUser, isAuthenticated, tokenSeq>>

\* The client by itself: calls of request outside the panel.
ClientRequest(r, skipAuth) ==
    /\ reqs[r].pc = "idle"
    /\ r > 1 => reqs[r - 1].pc # "idle"      \* calls numbered as they are made
    /\ request(r, skipAuth)
    /\ UNCHANGED <<panelVars, storeVars, backendVars, urlVars, shellVars>>

ClientUnauthorized(r) ==
    /\ Unauthorized(r)
    /\ UNCHANGED <<panelVars, storeVars, backendVars, urlVars, shellVars>>

ClientRefreshAnswered(r, outcome) ==
    /\ RefreshAnswered(r, outcome)
    /\ UNCHANGED <<panelVars, storeVars, backendVars, urlVars, shellVars>>

ClientAnswered(r, status) ==
    /\ Answered(r, status)
    /\ UNCHANGED <<panelVars, storeVars, backendVars, urlVars, shellVars>>

\* A session: both tokens stored, the user in the auth store.
ClientLoggedIn ==
    /\ auth_token = 1
    /\ refresh_token = 1
    /\ authUser = 1
    /\ isAuthenticated = TRUE
    /\ reqs = [r \in Reqs |-> IdleReq]
    /\ tokenSeq = 1

\* ------------------------------------------- auth store, App and its routes
\* The calls of ApiClient.request the auth store makes: GET /users/me for
\* fetchCurrentUser, PATCH /users/me for updateProfile.
UserReq == 1
ProfileReq == 2
StoreReqs == {UserReq, ProfileReq}

MaxTokens == 3

Paths == {"/", "/auth", "/projects"}

\* The persist middleware writes partialize(state) to the 'auth-store' item
\* on every set.
Persist == persisted' = [user |-> authUser', isAuthenticated |-> isAuthenticated']

LoggedOutItem == [user |-> 0, isAuthenticated |-> FALSE]

\* App renders its routes once isAuthChecked is set; /projects/* shows
\* ProjectsRoute when isAuthenticated, /auth shows AuthRoute when not.
ProjectsRouteRendered == isAuthChecked /\ location = "/projects" /\ isAuthenticated
AuthRouteRendered == isAuthChecked /\ location = "/auth" /\ ~isAuthenticated

\* Call r has just returned 'Authentication required': its refresh failed
\* and the 'auth:logout' listener has run useAuthStore.logout.
LoggedOutBy(r) == reqs'[r].result = "Authentication required"

\* The call of the store action that awaits r returns.
CallReturns(r) ==
    /\ callPc' = [callPc EXCEPT ![r] = "idle"]
    /\ isAuthChecked' = (isAuthChecked \/ callPc[r] = "checkAuth")

\* fetchCurrentUser up to its await: without a token the store is reset and
\* the call returns; otherwise GET /users/me goes out.
fetchCurrentUser(caller) ==
    /\ callPc[UserReq] = "idle"
    /\ tokenSeq < MaxTokens
    /\ IF auth_token = 0
       THEN /\ authUser' = 0
            /\ isAuthenticated' = FALSE
            /\ isAuthChecked' = (isAuthChecked \/ caller = "checkAuth")
            /\ UNCHANGED <<reqs, callPc>>
       ELSE /\ reqs' = [reqs EXCEPT ![UserReq] =
                           Req("fetch", FALSE, AuthHeader(FALSE), 1, 0, 0, 0, "none")]
            /\ callPc' = [callPc EXCEPT ![UserReq] = caller]
            /\ UNCHANGED <<authUser, isAuthenticated, isAuthChecked>>
    /\ Persist
    /\ UNCHANGED <<auth_token, refresh_token, tokenSeq, location, loginPc, sessionEnded>>

\* App's effect: const token = localStorage.getItem('auth_token');
\* if (token) await fetchCurrentUser(); setIsAuthChecked(true)
checkAuth ==
    /\ ~isAuthChecked
    /\ callPc[UserReq] = "idle"
    /\ IF auth_token # 0
       THEN fetchCurrentUser("checkAuth")
       ELSE /\ isAuthChecked' = TRUE
            /\ UNCHANGED <<clientVars, location, persisted, callPc, loginPc, sessionEnded>>
    /\ UNCHANGED <<panelVars, storeVars, backendVars, urlVars, listVars>>

\* fetchCurrentUser after its await: user of the if and of the else branch.
UserFromResponse(status) == IF status = "ok" THEN 1 ELSE 0

\* GET /users/me is answered for good and fetchCurrentUser goes on.
UserAnswered(status) ==
    /\ callPc[UserReq] # "idle"
    /\ reqs[UserReq].pc \in {"fetch", "retry"}
    /\ status = "error401" => ~(IsFirstFetch(reqs[UserReq]) /\ WantsRefresh(reqs[UserReq]))
    /\ reqs' = [reqs EXCEPT ![UserReq].pc = "done", ![UserReq].result = status]
    /\ authUser' = UserFromResponse(status)
    /\ isAuthenticated' = (UserFromResponse(status) # 0)
    /\ Persist
    /\ CallReturns(UserReq)
    /\ UNCHANGED <<auth_token, refresh_token, tokenSeq, location, loginPc, sessionEnded>>
    /\ UNCHANGED <<panelVars, storeVars, backendVars, urlVars, listVars>>

\* updateProfile up to its await: set({ isLoading: true, error: null }) and
\* PATCH /users/me goes out.  The profile form belongs to the signed-in pages.
updateProfile ==
    /\ ProjectsRouteRendered
    /\ callPc[ProfileReq] = "idle"
    /\ tokenSeq < MaxTokens
    /\ reqs' = [reqs EXCEPT ![ProfileReq] =
                   Req("fetch", FALSE, AuthHeader(FALSE), 1, 0, 0, 0, "none")]
    /\ callPc' = [callPc EXCEPT ![ProfileReq] = "component"]
    /\ UNCHANGED <<auth_token, refresh_token, authUser, isAuthenticated, tokenSeq,
                   isAuthChecked, location, loginPc, sessionEnded>>
    /\ Persist
    /\ UNCHANGED <<panelVars, storeVars, backendVars, urlVars, listVars>>

\* updateProfile after its await: user: response.data on success.
ProfileUser(status, user) == IF status = "ok" THEN 1 ELSE user

\* PATCH /users/me is answered for good and updateProfile goes on.
ProfileAnswered(status) ==
    /\ callPc[ProfileReq] # "idle"
    /\ reqs[ProfileReq].pc \in {"fetch", "retry"}
    /\ status = "error401" =>
          ~(IsFirstFetch(reqs[ProfileReq]) /\ WantsRefresh(reqs[ProfileReq]))
    /\ reqs' = [reqs EXCEPT ![ProfileReq].pc = "done", ![ProfileReq].result = status]
    /\ authUser' = ProfileUser(status, authUser)
    /\ CallReturns(ProfileReq)
    /\ UNCHANGED <<auth_token, refresh_token, isAuthenticated, tokenSeq, location,
                   loginPc, sessionEnded>>
    /\ Persist
    /\ UNCHANGED <<panelVars, storeVars, backendVars, urlVars, listVars>>

\* What the store action does with the response of a call that the client
\* ended or carries on: after 'Authentication required' both actions set
\* what logout has set already and return.
AfterClientStep(r) ==
    IF LoggedOutBy(r)
    THEN /\ CallReturns(r)
         /\ sessionEnded' = TRUE
         /\ Persist
    ELSE UNCHANGED <<callPc, isAuthChecked, sessionEnded, persisted>>

\* A store call's request is answered 401.
CallUnauthorized(r) ==
    /\ callPc[r] # "idle"
    /\ Unauthorized(r)
    /\ AfterClientStep(r)
    /\ UNCHANGED <<location, loginPc>>
    /\ UNCHANGED <<panelVars, storeVars, backendVars, urlVars, listVars>>

\* The POST /auth/refresh of a store call is answered.
CallRefreshAnswered(r, outcome) ==
    /\ callPc[r] # "idle"
    /\ RefreshAnswered(r, outcome)
    /\ AfterClientStep(r)
    /\ UNCHANGED <<location, loginPc>>
    /\ UNCHANGED <<panelVars, storeVars, backendVars, urlVars, listVars>>

\* login and register up to their await (AuthPage's form).
login ==
    /\ AuthRouteRendered
    /\ loginPc = "idle"
    /\ tokenSeq < MaxTokens
    /\ loginPc' = "awaiting"
    /\ UNCHANGED <<clientVars, isAuthChecked, location, callPc, sessionEnded>>
    /\ Persist
    /\ UNCHANGED <<panelVars, storeVars, backendVars, urlVars, listVars>>

\* POST /auth/login or /auth/register is answered: authApi stores the tokens
\* of an ok response and the store takes the user; otherwise
\* isAuthenticated: false.
LoginAnswered(ok) ==
    /\ loginPc = "awaiting"
    /\ loginPc' = "idle"
    /\ IF ok
       THEN /\ tokenSeq' = tokenSeq + 1
            /\ auth_token' = tokenSeq + 1
            /\ refresh_token' = tokenSeq + 1
            /\ authUser' = 1
            /\ isAuthenticated' = TRUE
            /\ sessionEnded' = FALSE
       ELSE /\ isAuthenticated' = FALSE
            /\ UNCHANGED <<tokenSeq, auth_token, refresh_token, authUser, sessionEnded>>
    /\ Persist
    /\ UNCHANGED <<reqs, isAuthChecked, location, callPc>>
    /\ UNCHANGED <<panelVars, storeVars, backendVars, urlVars, listVars>>

\* ProjectsRoute.handleSignOut: logout(); setCurrentProject(null);
\* navigate('/', { replace: true })
handleSignOut ==
    /\ ProjectsRouteRendered
    /\ logout
    /\ sessionEnded' = TRUE
    /\ currentProjectId' = 0
    /\ routeProjectId' = 0
    /\ location' = "/"
    /\ Persist
    /\ UNCHANGED <<reqs, tokenSeq, isAuthChecked, callPc, loginPc>>
    /\ UNCHANGED <<statusFilter, projFilters, currentPage, projectList, fetchCalls,
                   projLoading, projError, detailLoading, projectFetches,
                   projectFetchCount>>
    /\ UNCHANGED <<panelVars, storeVars, backendVars, urlVars>>

\* The user follows a link or enters an address of the application.
GoTo(p) ==
    /\ isAuthChecked
    /\ p # location
    /\ location' = p
    /\ UNCHANGED <<clientVars, isAuthChecked, persisted, callPc, loginPc, sessionEnded>>
    /\ UNCHANGED <<panelVars, storeVars, backendVars, urlVars, listVars>>

\* <Navigate to="/auth" replace /> and <Navigate to="/projects" replace />
Redirect ==
    /\ isAuthChecked
    /\ \/ location = "/projects" /\ ~isAuthenticated /\ location' = "/auth"
       \/ location = "/auth" /\ isAuthenticated /\ location' = "/projects"
    /\ UNCHANGED <<clientVars, isAuthChecked, persisted, callPc, loginPc, sessionEnded>>
    /\ UNCHANGED <<panelVars, storeVars, backendVars, urlVars, listVars>>

\* The application signs out in another tab: logout there removes the tokens
\* from the local storage the tabs share and persists its logged-out store.
SignOutInOtherTab ==
    /\ auth_token # 0
    /\ removeAuthToken
    /\ persisted' = LoggedOutItem
    /\ UNCHANGED <<authUser, isAuthenticated, reqs, tokenSeq, isAuthChecked, location,
                   callPc, loginPc, sessionEnded>>
    /\ UNCHANGED <<panelVars, storeVars, backendVars, urlVars, listVars>>

\* The page is loaded again: the store starts from the 'auth-store' item, no
\* call is in flight, App mounts.
Reload ==
    /\ authUser' = persisted.user
    /\ isAuthenticated' = persisted.isAuthenticated
    /\ reqs' = [r \in Reqs |-> IdleReq]
    /\ callPc' = [r \in StoreReqs |-> "idle"]
    /\ loginPc' = "idle"
    /\ isAuthChecked' = FALSE
    /\ sessionEnded' = FALSE
    /\ UNCHANGED <<auth_token, refresh_token, tokenSeq, location, persisted>>
    /\ UNCHANGED <<panelVars, storeVars, backendVars, urlVars, listVars>>

\* App mounted on a page whose stored session matches the client's.
AppIdle ==
    /\ isAuthChecked = TRUE
    /\ location = "/projects"
    /\ persisted = [user |-> 1, isAuthenticated |-> TRUE]
    /\ callPc = [r \in StoreReqs |-> "idle"]
    /\ loginPc = "idle"
    /\ sessionEnded = FALSE

\* --------------------------------- project store: the list and the detail view
\* A client call is taken by its ApiResponse: success with data, or not.
MaxFetches == 3
MaxProjectFetches == 3

FilterValues == {"all", "completed"}
Pages == {1, 2}
ProjectIds == {1, 2}

\* A call of fetchProject: the id asked for, and whether the view whose
\* effect made the call is still mounted.
ProjectFetch == [id : ProjectIds, live : BOOLEAN]

\* The items the server returns for a page and a filter stand for themselves.
ItemsFor(page, filters) == [page |-> page, filters |-> filters]

\* fetchProjects(page, filters) up to its await: activeFilters is the
\* argument, or the store's filters when there is none.
fetchProjects(page, filters) ==
    /\ Len(fetchCalls) < MaxFetches
    /\ projLoading' = TRUE
    /\ projError' = FALSE
    /\ fetchCalls' = Append(fetchCalls,
                            [page |-> page,
                             filters |-> IF filters = Null THEN projFilters'
                                         ELSE filters[1],
                             pc |-> "awaiting"])

\* ProjectsPage's effect: setFilters(projectFilters);
\* fetchProjects(1, projectFilters)
FilterEffect(f) ==
    /\ projFilters' = f
    /\ fetchProjects(1, Some(f))

\* The effect on mount, with the filter the page starts with.
ProjectsPageMount ==
    /\ fetchCalls = <<>>
    /\ FilterEffect(statusFilter)
    /\ UNCHANGED <<statusFilter, currentPage, projectList, routeProjectId,
                   currentProjectId, detailLoading, projectFetches, projectFetchCount>>
    /\ UNCHANGED <<panelVars, storeVars, backendVars, clientVars, urlVars, appVars>>

\* The user changes the status filter or the search query and the effect
\* runs again.
FilterChanged(f) ==
    /\ fetchCalls # <<>>
    /\ f # statusFilter
    /\ statusFilter' = f
    /\ FilterEffect(f)
    /\ UNCHANGED <<currentPage, projectList, routeProjectId, currentProjectId,
                   detailLoading, projectFetches, projectFetchCount>>
    /\ UNCHANGED <<panelVars, storeVars, backendVars, clientVars, urlVars, appVars>>

\* handlePageChange(page): fetchProjects(page, filters)
handlePageChange(page) ==
    /\ fetchCalls # <<>>
    /\ projFilters' = projFilters
    /\ fetchProjects(page, Some(projFilters))
    /\ UNCHANGED <<statusFilter, currentPage, projectList, routeProjectId, currentProjectId,
                   detailLoading, projectFetches, projectFetchCount>>
    /\ UNCHANGED <<panelVars, storeVars, backendVars, clientVars, urlVars, appVars>>

\* fetchProjects after its await takes every successful response.
TakesResponse(i) == TRUE

\* The response of call i arrives.
ProjectsAnswered(i, ok) ==
    /\ i \in 1..Len(fetchCalls)
    /\ fetchCalls[i].pc = "awaiting"
    /\ fetchCalls' = [fetchCalls EXCEPT ![i].pc = IF ok THEN "ok" ELSE "failed"]
    /\ IF ok
       THEN IF TakesResponse(i)
            THEN /\ projectList' = Some(ItemsFor(fetchCalls[i].page, fetchCalls[i].filters))
                 /\ currentPage' = fetchCalls[i].page
                 /\ projFilters' = fetchCalls[i].filters
                 /\ projLoading' = FALSE
                 /\ projError' = FALSE
            ELSE UNCHANGED <<projectList, currentPage, projFilters, projLoading, projError>>
       ELSE /\ projError' = TRUE
            /\ projLoading' = FALSE
            /\ UNCHANGED <<projectList, currentPage, projFilters>>
    /\ UNCHANGED <<statusFilter, routeProjectId, currentProjectId, detailLoading,
                   projectFetches, projectFetchCount>>
    /\ UNCHANGED <<panelVars, storeVars, backendVars, clientVars, urlVars, appVars>>

\* ProjectDetailView's effect for route id and store project cur: when they
\* differ, setIsLoading(true) and fetchProject(id) up to its await.
loadProject(id, cur) ==
    IF id # 0 /\ cur # id
    THEN /\ projectFetchCount < MaxProjectFetches
         /\ detailLoading' = TRUE
         /\ projLoading' = TRUE
         /\ projError' = FALSE
         /\ projectFetches' = projectFetches \cup {[id |-> id, live |-> TRUE]}
         /\ projectFetchCount' = projectFetchCount + 1
    ELSE UNCHANGED <<detailLoading, projLoading, projError, projectFetches,
                     projectFetchCount>>

\* ProjectsRoute.handleProjectSelect: navigate(`/projects/${project.id}`);
\* ProjectDetailView renders for the new id and its effect runs.
handleProjectSelect(id) ==
    /\ id # routeProjectId
    /\ routeProjectId' = id
    /\ currentProjectId' = currentProjectId
    /\ loadProject(id, currentProjectId)
    /\ UNCHANGED <<statusFilter, projFilters, currentPage, projectList, fetchCalls>>
    /\ UNCHANGED <<panelVars, storeVars, backendVars, clientVars, urlVars, appVars>>

\* handleBackToProjects: navigate('/projects'); the view unmounts and the
\* calls of its effects can no longer set its state.
handleBackToProjects ==
    /\ routeProjectId # 0
    /\ routeProjectId' = 0
    /\ detailLoading' = FALSE
    /\ projectFetches' = {[f EXCEPT !.live = FALSE] : f \in projectFetches}
    /\ UNCHANGED <<statusFilter, projFilters, currentPage, projectList, fetchCalls,
                   projLoading, projError, currentProjectId, projectFetchCount>>
    /\ UNCHANGED <<panelVars, storeVars, backendVars, clientVars, urlVars, appVars>>

\* fetchProject catches its own errors: the await in loadProject never
\* throws and the catch with navigate('/projects') is not reached.
RouteAfterFailure(route, live) == route

\* The response of a fetchProject arrives: the store takes the project or
\* the error, loadProject's finally clears isLoading, and the effect runs
\* again when currentProject has changed.
ProjectAnswered(f, ok) ==
    /\ f \in projectFetches
    /\ IF ok
       THEN /\ currentProjectId' = f.id
            /\ routeProjectId' = routeProjectId
            /\ IF routeProjectId # 0 /\ f.id # routeProjectId
               THEN /\ projectFetchCount < MaxProjectFetches
                    /\ detailLoading' = TRUE
                    /\ projLoading' = TRUE
                    /\ projError' = FALSE
                    /\ projectFetches' = (projectFetches \ {f})
                                            \cup {[id |-> routeProjectId, live |-> TRUE]}
                    /\ projectFetchCount' = projectFetchCount + 1
               ELSE /\ detailLoading' = (IF f.live THEN FALSE ELSE detailLoading)
                    /\ projLoading' = FALSE
                    /\ projError' = FALSE
                    /\ projectFetches' = projectFetches \ {f}
                    /\ UNCHANGED projectFetchCount
       ELSE /\ projError' = TRUE
            /\ projLoading' = FALSE
            /\ detailLoading' = (IF f.live THEN FALSE ELSE detailLoading)
            /\ routeProjectId' = RouteAfterFailure(routeProjectId, f.live)
            /\ projectFetches' = projectFetches \ {f}
            /\ UNCHANGED <<currentProjectId, projectFetchCount>>
    /\ UNCHANGED <<statusFilter, projFilters, currentPage, projectList, fetchCalls>>
    /\ UNCHANGED <<panelVars, storeVars, backendVars, clientVars, urlVars, appVars>>

\* ProjectDetailView renders the transcription interface for currentProject.
DetailShowsProject ==
    routeProjectId # 0 /\ ~detailLoading /\ currentProjectId # 0

\* The projects list mounted, nothing fetched yet.
ListIdle ==
    /\ statusFilter = "all"
    /\ projFilters = "all"
    /\ currentPage = 1
    /\ projectList = Null
    /\ fetchCalls = <<>>
    /\ projLoading = FALSE
    /\ projError = FALSE
    /\ routeProjectId = 0
    /\ currentProjectId = 0
    /\ detailLoading = FALSE
    /\ projectFetches = {}
    /\ projectFetchCount = 0

\* ---------------------------------------------------------- TranscriptPanel
TextOf(tid) == currentTranscription[1][tid]

\* The transcript tab renders the items when the store is neither loading
\* nor in error.
TranscriptsRendered ==
    currentTranscription # Null /\ ~tLoading /\ ~tError

\* The characters of transcript tid on the screen (none before the first
\* transcription has arrived).
Displayed(tid) ==
    IF currentTranscription = Null THEN <<>>
    ELSE DisplayedText(TextOf(tid), tid, changes)

\* fetchTranscription(projectId) up to its await: set({isLoading: true,
\* error: null}) and the GET is on its way.  It runs as the effect of a new
\* selectedProject object.
FetchTranscriptionStarted ==
    /\ tLoading' = TRUE
    /\ tError' = FALSE
    /\ tFetches' = tFetches + 1

\* startIndex = currentText.indexOf(selectedText)
SelectionStart(currentText, selectedText, p) == IndexOf(currentText, selectedText)

\* onMouseUp on the span of transcript tid, the selection covering
\* [p, p + n) of the displayed characters.
handleTextSelection(tid, p, n) ==
    /\ TranscriptsRendered
    /\ nextId <= MaxChanges
    /\ LET displayed == Displayed(tid)
           selectedText == SubSeq(displayed, p + 1, p + n)
           currentText == getCurrentText(TextOf(tid), tid, changes)
           startIndex == SelectionStart(currentText, selectedText, p)
       IN  /\ p + n <= Len(displayed)
           /\ ~IsBlank(selectedText)
           /\ editingState' = Some([transcriptId |-> tid,
                                    selectedText |-> selectedText,
                                    startIndex |-> startIndex,
                                    endIndex |-> startIndex + Len(selectedText),
                                    newText |-> selectedText,
                                    position |-> p])
    /\ UNCHANGED <<changes, isApplyingChanges, applyPc, sentBatch,
                   postCount, applyCount, nextId, lastResult, resultCount,
                   storeVars, backendVars, urlVars, shellVars, clientVars>>

\* onChange of the tooltip's input: the text the user leaves in it.
TypedText(state, typed) ==
    IF typed = Null THEN state.newText ELSE typed[1]

\* Save (or Enter) in the tooltip, after the user has typed typed[1] into
\* the input (typed = Null: the input still holds the selected text).
handleSaveEdit(typed) ==
    /\ editingState # Null
    /\ currentTranscription # Null
    /\ editingState[1].transcriptId \in DOMAIN currentTranscription[1]
    /\ nextId <= MaxChanges
    /\ changes' = Append(changes,
                         TextChange(nextId,
                                    editingState[1].transcriptId,
                                    editingState[1].selectedText,
                                    TypedText(editingState[1], typed),
                                    editingState[1].startIndex,
                                    editingState[1].endIndex))
    /\ nextId' = nextId + 1
    /\ editingState' = Null
    /\ UNCHANGED <<isApplyingChanges, applyPc, sentBatch, postCount,
                   applyCount, lastResult, resultCount, storeVars, backendVars, urlVars, shellVars,
                   clientVars>>

handleCancelEdit ==
    /\ editingState # Null
    /\ editingState' = Null
    /\ UNCHANGED <<changes, isApplyingChanges, applyPc, sentBatch,
                   postCount, applyCount, nextId, lastResult, resultCount,
                   storeVars, backendVars, urlVars, shellVars, clientVars>>

handleDeleteChange(changeId) ==
    /\ \E i \in 1..Len(changes) : changes[i].id = changeId
    /\ changes' = SelectSeq(changes, LAMBDA c : c.id # changeId)
    /\ UNCHANGED <<editingState, isApplyingChanges, applyPc, sentBatch,
                   postCount, applyCount, nextId, lastResult, resultCount,
                   storeVars, backendVars, urlVars, shellVars, clientVars>>

handleClearAllChanges ==
    /\ changes # <<>>
    /\ changes' = <<>>
    /\ UNCHANGED <<editingState, isApplyingChanges, applyPc, sentBatch,
                   postCount, applyCount, nextId, lastResult, resultCount,
                   storeVars, backendVars, urlVars, shellVars, clientVars>>

\* The call of ApiClient.request that carries the panel's POST.
ApplyReq == 1

\* handleApplyChanges up to its await: the entry guard, setIsApplyingChanges
\* and the POST with the changes of this render.  The button is disabled
\* while isApplyingChanges.
handleApplyChanges ==
    /\ ~isApplyingChanges
    /\ applyPc = "idle"
    /\ changes # <<>>
    /\ applyCount < MaxPosts
    /\ isApplyingChanges' = TRUE
    /\ sentBatch' = changes
    /\ applyCount' = applyCount + 1
    /\ postCount' = postCount + 1
    /\ applyPc' = "posting"
    /\ lastResult' = "pending"
    /\ request(ApplyReq, FALSE)
    /\ UNCHANGED <<changes, editingState, nextId, resultCount, storeVars,
                   backendVars, urlVars, shellVars>>

\* setUpdatedProject(project): the entry of projects and currentProject.
setUpdatedProject(project) ==
    /\ projects' = project
    /\ currentProject' = project

\* The request is answered with success: the engine accepted the batch,
\* wrote the new segment texts and the new media artifact.  The handler runs
\* setUpdatedProject(response.data) and starts refreshCurrentProject.
ApplySucceeded ==
    /\ applyPc = "posting"
    /\ Answered(ApplyReq, "ok")
    /\ ResolveError(serverText, sentBatch) = "ok"
    /\ serverText' = EditPlan(serverText, sentBatch)
    /\ mediaVersion' = mediaVersion + 1
    /\ setUpdatedProject(mediaVersion + 1)
    /\ FetchTranscriptionStarted
    /\ applyPc' = "refreshing"
    /\ UNCHANGED <<changes, editingState, isApplyingChanges, sentBatch,
                   postCount, applyCount, nextId, lastResult, resultCount,
                   currentTranscription, engineVars, gatewayVars, urlVars, shellVars>>

\* (a variant whose catch also empties the pending list)
ApplyCatchClears(err) ==
    /\ lastResult' = err
    /\ resultCount' = resultCount + 1
    /\ isApplyingChanges' = FALSE
    /\ applyPc' = "idle"
    /\ changes' = <<>>
    /\ UNCHANGED <<editingState, sentBatch, postCount, applyCount, nextId,
                   storeVars, backendVars, urlVars, shellVars>>

\* (a variant without the finally block)
ApplyCatchNoFinally(err) ==
    /\ lastResult' = err
    /\ resultCount' = resultCount + 1
    /\ applyPc' = "idle"
    /\ UNCHANGED <<changes, editingState, isApplyingChanges, sentBatch, postCount,
                   applyCount, nextId, storeVars, backendVars, urlVars, shellVars>>

\* catch and finally of handleApplyChanges: the error toast,
\* setIsApplyingChanges(false).
ApplyCatch(err) ==
    /\ lastResult' = err
    /\ resultCount' = resultCount + 1
    /\ isApplyingChanges' = FALSE
    /\ applyPc' = "idle"
    /\ UNCHANGED <<changes, editingState, sentBatch, postCount, applyCount,
                   nextId, storeVars, backendVars, urlVars, shellVars>>

\* The status of the response that carries the error err.
StatusOf(err) ==
    CASE err = "Network error" -> "Network error"
      [] err = "Unauthorized" -> "error401"
      [] OTHER -> "error"

\* The request fails for good: a validation error of the batch, a failed
\* synthesis, a 401 on the retry or a network error.
ApplyFailed(err) ==
    /\ applyPc = "posting"
    /\ err \in (IF ResolveError(serverText, sentBatch) = "ok"
                THEN {"SynthesisFailed"}
                ELSE {ResolveError(serverText, sentBatch)})
               \cup {"Network error", "Unauthorized"}
    /\ Answered(ApplyReq, StatusOf(err))
    /\ ApplyCatch(err)

\* The POST is answered with 401: the client starts refreshToken; without
\* a stored refresh token the call returns 'Authentication required'.
ApplyUnauthorized ==
    /\ applyPc = "posting"
    /\ Unauthorized(ApplyReq)
    /\ IF refresh_token = 0
       THEN ApplyCatch("Authentication required")
       ELSE UNCHANGED <<panelVars, storeVars, backendVars, urlVars, shellVars>>

\* POST /auth/refresh is answered: the client sends the POST again, or the
\* call returns 'Authentication required'.
ApplyRefreshAnswered(outcome) ==
    /\ applyPc = "posting"
    /\ RefreshAnswered(ApplyReq, outcome)
    /\ IF outcome \in {"ok", "okRotated"}
       THEN /\ postCount' = postCount + 1
            /\ UNCHANGED <<changes, editingState, isApplyingChanges, applyPc,
                           sentBatch, applyCount, nextId, lastResult,
                           resultCount, storeVars, backendVars, urlVars, shellVars>>
       ELSE ApplyCatch("Authentication required")

\* setChanges([]) after a successful apply
ChangesAfterSuccess(pending, sent) == <<>>

\* refreshCurrentProject returns (it catches its own errors); then the success
\* toast, setChanges([]) and finally.
RefreshDone(ok) ==
    /\ applyPc = "refreshing"
    /\ IF ok
       THEN currentProject' = mediaVersion /\ FetchTranscriptionStarted
       ELSE UNCHANGED <<currentProject, tLoading, tError, tFetches>>
    /\ changes' = ChangesAfterSuccess(changes, sentBatch)
    /\ lastResult' = "success"
    /\ resultCount' = resultCount + 1
    /\ isApplyingChanges' = FALSE
    /\ applyPc' = "idle"
    /\ UNCHANGED <<editingState, sentBatch, postCount, applyCount, nextId,
                   currentTranscription, projects, backendVars, urlVars, shellVars, clientVars>>

\* A GET /projects/{id}/transcripts is answered.
FetchTranscriptionResponse(ok) ==
    /\ tFetches > 0
    /\ tFetches' = tFetches - 1
    /\ tLoading' = FALSE
    /\ IF ok
       THEN currentTranscription' = Some(serverText) /\ tError' = FALSE
       ELSE currentTranscription' = currentTranscription /\ tError' = TRUE
    /\ UNCHANGED <<panelVars, currentProject, projects, backendVars, urlVars, shellVars, clientVars>>

\* ===========================================================================
\* Media URLs: lib/utils buildMediaUrl, isValidMediaUrl,
\* buildMediaUrlWithCacheBuster and their callers.  A string is a sequence of
\* one-character strings; Null is undefined.
\* ===========================================================================

\* The characters the strings of this part are made of.
Alpha == {"a", "c", "f", "h", "l", "o", "p", "s", "t"}
Upper == {"H", "P", "T"}
Digit == {"0", "8"}

Lower(c) == CASE c = "H" -> "h" [] c = "P" -> "p" [] c = "T" -> "t" [] OTHER -> c

DigitValue(c) == IF c = "8" THEN 8 ELSE 0

\* 'http://localhost:8000', the default of buildMediaUrl and of config.ts
DefaultBaseUrl ==
    <<"h", "t", "t", "p", ":", "/", "/", "l", "o", "c", "a", "l", "h", "o", "s",
      "t", ":", "8", "0", "0", "0">>

\* import.meta.env.VITE_API_BASE_URL || 'http://localhost:8000'
baseUrl == IF VITE_API_BASE_URL = Null \/ VITE_API_BASE_URL[1] = <<>>
           THEN DefaultBaseUrl
           ELSE VITE_API_BASE_URL[1]

\* The position of the first character of s that is in set cs, 0 if none.
FirstOf(s, cs) ==
    IF \E i \in 1..Len(s) : s[i] \in cs
    THEN CHOOSE i \in 1..Len(s) : s[i] \in cs /\ \A j \in 1..(i - 1) : s[j] \notin cs
    ELSE 0

\* new URL(url) first strips leading and trailing C0 controls and spaces.
RECURSIVE StripSpaces(_)
StripSpaces(s) ==
    IF s = <<>> THEN s
    ELSE IF Head(s) = " " THEN StripSpaces(Tail(s))
    ELSE IF s[Len(s)] = " " THEN StripSpaces(SubSeq(s, 1, Len(s) - 1))
    ELSE s

\* parsed.protocol without its colon: the lower-cased scheme of the string,
\* Null when the string has no scheme (new URL throws, there being no base).
ProtocolOf(s) ==
    LET k == FirstOf(s, {":"})
    IN  IF /\ k > 1
           /\ s[1] \in Alpha \cup Upper
           /\ \A i \in 1..(k - 1) : s[i] \in Alpha \cup Upper \cup Digit \cup {"+", "-", "."}
        THEN Some([i \in 1..(k - 1) |-> Lower(s[i])])
        ELSE Null

\* What follows the scheme of an http(s) URL once the slashes and backslashes
\* before the authority are skipped.
RECURSIVE SkipSlashes(_)
SkipSlashes(s) ==
    IF s # <<>> /\ Head(s) \in {"/", "\\"} THEN SkipSlashes(Tail(s)) ELSE s

\* The authority: up to the first of / \ ? # or to the end.
AuthorityOf(s) ==
    LET k == FirstOf(s, {"/", "\\", "?", "#"})
    IN  IF k = 0 THEN s ELSE SubSeq(s, 1, k - 1)

RECURSIVE PortValue(_, _)
PortValue(s, acc) ==
    IF s = <<>> THEN acc
    ELSE PortValue(Tail(s), IF acc > 65535 THEN acc ELSE 10 * acc + DigitValue(Head(s)))

\* The host parser on a host without dots: a forbidden host code point fails,
\* a host of digits is an IPv4 number (a leading 0 makes it octal).
HostOk(h) ==
    /\ h # <<>>
    /\ \A i \in 1..Len(h) : h[i] \in Alpha \cup Upper \cup Digit \cup {"+", "-"}
    /\ (\A i \in 1..Len(h) : h[i] \in Digit) =>
          (Len(h) = 1 \/ h[1] # "0" \/ \A i \in 2..Len(h) : h[i] # "8")

\* The authority of an http(s) URL parses: a host, then nothing or a colon
\* and a port of digits, at most 65535.
AuthorityOk(a) ==
    LET k == FirstOf(a, {":"})
        host == IF k = 0 THEN a ELSE SubSeq(a, 1, k - 1)
        port == IF k = 0 THEN <<>> ELSE SubSeq(a, k + 1, Len(a))
    IN  /\ HostOk(host)
        /\ \A i \in 1..Len(port) : port[i] \in Digit
        /\ PortValue(port, 0) <= 65535

Http == <<"h", "t", "t", "p">>
Https == <<"h", "t", "t", "p", "s">>

\* (a variant that accepts the https protocol only)
isValidMediaUrlHttpsOnly(url) ==
    LET s == StripSpaces(url)
        protocol == ProtocolOf(s)
    IN  /\ url # <<>>
        /\ protocol = Some(Https)
        /\ AuthorityOk(AuthorityOf(SkipSlashes(SubSeq(s, Len(protocol[1]) + 2, Len(s)))))

\* isValidMediaUrl: new URL(url) does not throw and its protocol is http: or
\* https:
isValidMediaUrl(url) ==
    LET s == StripSpaces(url)
        protocol == ProtocolOf(s)
    IN  /\ url # <<>>
        /\ protocol \in {Some(Http), Some(Https)}
        /\ AuthorityOk(AuthorityOf(SkipSlashes(SubSeq(s, Len(protocol[1]) + 2, Len(s)))))

buildMediaUrl(path) ==
    IF path = <<>> THEN <<>>
    ELSE IF isValidMediaUrl(path) THEN path
    ELSE LET cleanPath == IF Head(path) = "/" THEN Tail(path) ELSE path
         IN  baseUrl \o <<"/">> \o cleanPath

\* The decimal text of a number, as the template literal writes it.
DigitChar == <<"0", "1", "2", "3", "4", "5", "6", "7", "8", "9">>

RECURSIVE ToDecimal(_)
ToDecimal(n) ==
    IF n < 10 THEN <<DigitChar[n + 1]>>
    ELSE ToDecimal(n \div 10) \o <<DigitChar[(n % 10) + 1]>>

\* timestamp is undefined (Null) or a number; now is Date.now()
buildMediaUrlWithCacheBuster(path, timestamp, now) ==
    LET url == buildMediaUrl(path)
        cacheBuster == IF timestamp = Null \/ timestamp[1] = 0 THEN now ELSE timestamp[1]
        separator == IF FirstOf(url, {"?"}) # 0 THEN "&" ELSE "?"
    IN  IF url = <<>> THEN <<>>
        ELSE url \o <<separator, "t", "=">> \o ToDecimal(cacheBuster)

\* The videoUrl field of mapApiProjectToProject; an absent or empty video_url
\* gives undefined.
mapApiProjectToProject(apiVideoUrl) ==
    IF apiVideoUrl # Null /\ apiVideoUrl[1] # <<>>
    THEN Some(buildMediaUrl(apiVideoUrl[1]))
    ELSE Null

\* ---- the strings the media paths are drawn from
MaxTail == 2
MaxStamp == 11

TailChars == {"a", "/", "?", ":", " ", "8", "0"}

RECURSIVE TailsOfLen(_)
TailsOfLen(n) ==
    IF n = 0 THEN {<<>>}
    ELSE {<<c>> \o t : c \in TailChars, t \in TailsOfLen(n - 1)}

Tails == UNION {TailsOfLen(n) : n \in 0..MaxTail}

Heads ==
    {<<>>, <<"/">>, Http \o <<":", "/", "/">>, Https \o <<":", "/", "/">>,
     <<"f", "t", "p", ":", "/", "/">>, Http \o <<":">>,
     <<"H", "T", "T", "P", ":", "/", "/">>, <<" ">> \o Http \o <<":", "/", "/">>,
     Http \o <<":", "/", "/", "a">>}

MediaPaths == {h \o t : h \in Heads, t \in Tails}

\* The values of VITE_API_BASE_URL: unset, empty, the URL of an API server.
EnvBaseUrls == {Null, Some(<<>>), Some(Https \o <<":", "/", "/", "a">>)}

\* A project arrives from the API and is mapped into the store; the
\* components that show it have yet to render the new value.
ProjectResponse ==
    /\ videoUrl' = mapApiProjectToProject(video_url)
    /\ cardVideoUrl' = Null
    /\ playerVideoUrl' = Null
    /\ UNCHANGED <<VITE_API_BASE_URL, video_url>>
    /\ UNCHANGED <<panelVars, storeVars, backendVars, clientVars, shellVars>>

\* ProjectCard renders: project.videoUrl ? buildMediaUrl(project.videoUrl)
\*                                        : undefined
ProjectCardRender ==
    /\ cardVideoUrl' = IF videoUrl # Null /\ videoUrl[1] # <<>>
                       THEN Some(buildMediaUrl(videoUrl[1]))
                       ELSE Null
    /\ UNCHANGED <<VITE_API_BASE_URL, video_url, videoUrl, playerVideoUrl>>
    /\ UNCHANGED <<panelVars, storeVars, backendVars, clientVars, shellVars>>

\* VideoPlayer renders with its cacheBuster state.
VideoPlayerRender(cacheBuster, now) ==
    /\ playerVideoUrl' = IF videoUrl # Null /\ videoUrl[1] # <<>>
                         THEN Some(buildMediaUrlWithCacheBuster(videoUrl[1],
                                                               Some(cacheBuster), now))
                         ELSE Null
    /\ UNCHANGED <<VITE_API_BASE_URL, video_url, videoUrl, cardVideoUrl>>
    /\ UNCHANGED <<panelVars, storeVars, backendVars, clientVars, shellVars>>

UrlIdle ==
    /\ VITE_API_BASE_URL = Null
    /\ video_url = Null
    /\ videoUrl = Null
    /\ cardVideoUrl = Null
    /\ playerVideoUrl = Null

\* --------------------------------------------------------- specification
\* The transcripts a project starts with.
InitTranscripts ==
    {[tid \in SegIds |-> IF tid = "s1" THEN t ELSE <<"b">>] :
        t \in {u \in TextsOfLen(MaxLen) : u[1] = "a" /\ u[MaxLen] = "a"}}

\* The panel is mounted for a loaded project: the effect has started
\* fetchTranscription.
Init ==
    /\ serverText \in InitTranscripts
    /\ mediaVersion = 1
    /\ currentProject = 1
    /\ currentTranscription = Null
    /\ tLoading = TRUE
    /\ tError = FALSE
    /\ tFetches = 1
    /\ changes = <<>>
    /\ editingState = Null
    /\ isApplyingChanges = FALSE
    /\ applyPc = "idle"
    /\ sentBatch = <<>>
    /\ postCount = 0
    /\ nextId = 1
    /\ lastResult = "none"
    /\ resultCount = 0
    /\ applyCount = 0
    /\ projects = 1
    /\ EngineIdle
    /\ GatewayIdle
    /\ ClientLoggedIn
    /\ UrlIdle
    /\ AppIdle
    /\ ListIdle

Next ==
    \/ \E tid \in SegIds :
          \E p \in 0..(Len(Displayed(tid)) - 1) :
             \E n \in 1..(Len(Displayed(tid)) - p) : handleTextSelection(tid, p, n)
    \/ \E typed \in {Null} \cup {Some(v) : v \in NewTexts} : handleSaveEdit(typed)
    \/ handleCancelEdit
    \/ \E id \in 1..MaxChanges : handleDeleteChange(id)
    \/ handleClearAllChanges
    \/ handleApplyChanges
    \/ ApplySucceeded
    \/ \E err \in {"UnknownSegment", "OverlappingEdits", "TextMismatch",
                   "SynthesisFailed", "Network error", "Unauthorized"} :
          ApplyFailed(err)
    \/ ApplyUnauthorized
    \/ \E outcome \in RefreshOutcomes : ApplyRefreshAnswered(outcome)
    \/ \E ok \in BOOLEAN : RefreshDone(ok)
    \/ \E ok \in BOOLEAN : FetchTranscriptionResponse(ok)

Spec == Init /\ [][Next]_vars

\* ------------------------------------------- the text functions on their own
\* getCurrentText and applyChangesToText are functions of a segment text and
\* a list of changes.  SpecText starts the panel with a transcript and an
\* arbitrary pending list drawn from bounded sets; the list then shrinks by
\* handleDeleteChange and handleClearAllChanges.

\* The ranges and replacement texts drawn for segment s1, and two for s2
\* (getCurrentText drops the changes of other segments by transcriptId
\* before it reads any other field).
EditShapes ==
    {[transcriptId |-> "s1", startIndex |-> s, endIndex |-> e, newText |-> Xs(k)] :
        s \in 0..MaxLen, e \in 0..MaxLen, k \in 0..MaxNewLen}
    \cup {[transcriptId |-> "s2", startIndex |-> 0, endIndex |-> e, newText |-> Xs(1)] :
        e \in 0..1}

\* The pending list of the shapes sh over the transcript tr: ids 1, 2, ...
\* and oldText as found in the segment text.
BatchOf(tr, sh) ==
    [i \in 1..Len(sh) |->
        TextChange(i, sh[i].transcriptId,
                   Substring(tr[sh[i].transcriptId], sh[i].startIndex, sh[i].endIndex),
                   sh[i].newText, sh[i].startIndex, sh[i].endIndex)]

InitText ==
    /\ \E n \in 0..MaxLen :
          currentTranscription =
              Some([tid \in SegIds |-> IF tid = "s1" THEN Prefix(n) ELSE <<"b">>])
    /\ \E sh \in SeqsUpTo({x \in EditShapes : x.startIndex <= x.endIndex}, MaxEdits) :
          changes = BatchOf(currentTranscription[1], sh)
    /\ serverText = currentTranscription[1]
    /\ mediaVersion = 1
    /\ currentProject = 1
    /\ tLoading = FALSE
    /\ tError = FALSE
    /\ tFetches = 0
    /\ editingState = Null
    /\ isApplyingChanges = FALSE
    /\ applyPc = "idle"
    /\ sentBatch = <<>>
    /\ postCount = 0
    /\ nextId = Len(changes) + 1
    /\ lastResult = "none"
    /\ resultCount = 0
    /\ applyCount = 0
    /\ projects = 1
    /\ EngineIdle
    /\ GatewayIdle
    /\ ClientLoggedIn
    /\ UrlIdle
    /\ AppIdle
    /\ ListIdle

NextText ==
    \/ \E id \in 1..MaxEdits : handleDeleteChange(id)
    \/ handleClearAllChanges

SpecText == InitText /\ [][NextText]_vars

\* ------------------------------------------------------------- specifications
\* The frontend at rest, no edit made.
FrontendIdle ==
    /\ serverText = [tid \in SegIds |-> <<"b">>]
    /\ currentTranscription = Some(serverText)
    /\ mediaVersion = 1
    /\ currentProject = 1
    /\ tLoading = FALSE
    /\ tError = FALSE
    /\ tFetches = 0
    /\ changes = <<>>
    /\ editingState = Null
    /\ isApplyingChanges = FALSE
    /\ applyPc = "idle"
    /\ sentBatch = <<>>
    /\ postCount = 0
    /\ nextId = 1
    /\ lastResult = "none"
    /\ resultCount = 0
    /\ applyCount = 0
    /\ projects = 1

\* One batch of the engine, from the start of its synthesis calls: every
\* transcript within the bounds, every non-empty set of edited segments.
InitEngine ==
    /\ FrontendIdle
    /\ ClientLoggedIn
    /\ UrlIdle
    /\ AppIdle
    /\ ListIdle
    /\ GatewayIdle
    /\ eSegments \in TranscriptsFrom(0, MaxSegs) \ {<<>>}
    /\ eEdited \in SUBSET (1..Len(eSegments)) \ {{}}
    /\ eSynth = [i \in eEdited |-> SynthState("pending", 0)]
    /\ eAudio = {}
    /\ eState = "synthesizing"
    /\ eTimeline = Null
    /\ eOutput = Null
    /\ eReports = <<>>

NextEngine ==
    \/ \E i \in 1..MaxSegs : SynthStart(i)
    \/ \E i \in 1..MaxSegs : \E d \in 1..MaxDur : SynthOk(i, d)
    \/ \E i \in 1..MaxSegs : SynthFail(i)
    \/ ReconcileStep
    \/ SpliceStep
    \/ \E ok \in BOOLEAN : RemuxStep(ok)

SpecEngine == InitEngine /\ [][NextEngine]_vars

\* The gateway with its callers.
InitGateway ==
    /\ FrontendIdle
    /\ ClientLoggedIn
    /\ UrlIdle
    /\ AppIdle
    /\ ListIdle
    /\ EngineIdle
    /\ GatewayIdle

NextGateway ==
    \/ \E c \in Callers : \E key \in Keys : Synthesize(c, key)
    \/ \E c \in Callers : NetOk(c)
    \/ \E c \in Callers : \E kind \in {"transient", "permanent"} : NetFail(c, kind)
    \/ \E c \in Callers : RetryAfterBackoff(c)
    \/ \E key \in Keys : CacheExpire(key)

SpecGateway == InitGateway /\ [][NextGateway]_vars

\* The ApiClient with its calls: local storage with or without either token,
\* the auth store logged in exactly if an access token is stored.
InitClient ==
    /\ FrontendIdle
    /\ EngineIdle
    /\ GatewayIdle
    /\ auth_token \in {0, 1}
    /\ refresh_token \in {0, 1}
    /\ authUser = auth_token
    /\ isAuthenticated = (auth_token # 0)
    /\ reqs = [r \in Reqs |-> IdleReq]
    /\ tokenSeq = 1
    /\ UrlIdle
    /\ AppIdle
    /\ ListIdle

NextClient ==
    \/ \E r \in Reqs : \E skipAuth \in BOOLEAN : ClientRequest(r, skipAuth)
    \/ \E r \in Reqs : ClientUnauthorized(r)
    \/ \E r \in Reqs : \E outcome \in RefreshOutcomes : ClientRefreshAnswered(r, outcome)
    \/ \E r \in Reqs : \E status \in Statuses : ClientAnswered(r, status)

SpecClient == InitClient /\ [][NextClient]_vars

\* ---- media URLs on their own: any base URL, any media path
InitUrl ==
    /\ FrontendIdle
    /\ EngineIdle
    /\ GatewayIdle
    /\ ClientLoggedIn
    /\ VITE_API_BASE_URL \in EnvBaseUrls
    /\ video_url \in {Null} \cup {Some(m) : m \in MediaPaths}
    /\ videoUrl = Null
    /\ cardVideoUrl = Null
    /\ playerVideoUrl = Null
    /\ AppIdle
    /\ ListIdle

NextUrl ==
    \/ ProjectResponse
    \/ ProjectCardRender
    \/ \E cacheBuster \in {0, 1, MaxStamp} : \E now \in {1, MaxStamp} :
          VideoPlayerRender(cacheBuster, now)

SpecUrl == InitUrl /\ [][NextUrl]_vars

\* ---- the auth store and App: a browser without a session opens the
\* application on any of its pages
InitAuth ==
    /\ FrontendIdle
    /\ EngineIdle
    /\ GatewayIdle
    /\ UrlIdle
    /\ auth_token = 0
    /\ refresh_token = 0
    /\ authUser = 0
    /\ isAuthenticated = FALSE
    /\ reqs = [r \in Reqs |-> IdleReq]
    /\ tokenSeq = 0
    /\ isAuthChecked = FALSE
    /\ location \in Paths
    /\ persisted = LoggedOutItem
    /\ callPc = [r \in StoreReqs |-> "idle"]
    /\ loginPc = "idle"
    /\ sessionEnded = FALSE
    /\ ListIdle

NextAuth ==
    \/ checkAuth
    \/ \E status \in Statuses : UserAnswered(status)
    \/ updateProfile
    \/ \E status \in Statuses : ProfileAnswered(status)
    \/ \E r \in StoreReqs : CallUnauthorized(r)
    \/ \E r \in StoreReqs : \E outcome \in RefreshOutcomes : CallRefreshAnswered(r, outcome)
    \/ login
    \/ \E ok \in BOOLEAN : LoginAnswered(ok)
    \/ handleSignOut
    \/ \E p \in Paths : GoTo(p)
    \/ Redirect
    \/ SignOutInOtherTab
    \/ Reload

SpecAuth == InitAuth /\ [][NextAuth]_vars

\* ---- the projects list on its own
InitList ==
    /\ FrontendIdle
    /\ EngineIdle
    /\ GatewayIdle
    /\ ClientLoggedIn
    /\ UrlIdle
    /\ AppIdle
    /\ ListIdle

NextList ==
    \/ ProjectsPageMount
    \/ \E f \in FilterValues : FilterChanged(f)
    \/ \E page \in Pages : handlePageChange(page)
    \/ \E i \in 1..MaxFetches : \E ok \in BOOLEAN : ProjectsAnswered(i, ok)

SpecList == InitList /\ [][NextList]_vars

\* ---- the detail view on its own
NextDetail ==
    \/ \E id \in ProjectIds : handleProjectSelect(id)
    \/ handleBackToProjects
    \/ \E f \in ProjectFetch : \E ok \in BOOLEAN : ProjectAnswered(f, ok)

SpecDetail == InitList /\ [][NextDetail]_vars

\* ------------------------------------------------------------------ C1
\* Every range lies in the text: 0 <= startIndex <= endIndex <= |T|.
InBounds(text, cs) ==
    \A i \in 1..Len(cs) :
        /\ 0 <= cs[i].startIndex
        /\ cs[i].startIndex <= cs[i].endIndex
        /\ cs[i].endIndex <= Len(text)

\* T[pos, s1) + new1 + T[e1, s2) + new2 + ... + T[en, |T|)
RECURSIVE SpliceOf(_, _, _)
SpliceOf(text, sorted, pos) ==
    IF sorted = <<>> THEN SubSeq(text, pos + 1, Len(text))
    ELSE SubSeq(text, pos + 1, Head(sorted).startIndex)
            \o Head(sorted).newText
            \o SpliceOf(text, Tail(sorted), Head(sorted).endIndex)

\* The edits applied one at a time on a copy of the text, the rightmost
\* first, so that every index still means what it meant in the original.
RECURSIVE OneAtATime(_, _)
OneAtATime(copy, sorted) ==
    IF sorted = <<>> THEN copy
    ELSE LET c == sorted[Len(sorted)]
         IN  OneAtATime(SubSeq(copy, 1, c.startIndex) \o c.newText
                            \o SubSeq(copy, c.endIndex + 1, Len(copy)),
                        SubSeq(sorted, 1, Len(sorted) - 1))

\* The batch of segment tid is in bounds and, sorted by startIndex, no edit
\* ends after the next one starts.
ValidBatch(tid) ==
    /\ InBounds(TextOf(tid), ChangesOf(changes, tid))
    /\ ~OverlapsIn(SortByStartIndex(ChangesOf(changes, tid)))

C2_EditsCapturedAgainstOriginal ==
    currentTranscription # Null =>
        \A i \in 1..Len(changes) :
            ~TextMismatch(TextOf(changes[i].transcriptId), changes[i])

\* ------------------------------------------------------------------ C3
\* C3: edits on one segment must not overlap; no sequence of handleSaveEdit
\* calls followed by handleApplyChanges sends a batch in which, sorted by
\* startIndex, an edit ends after the next edit of its segment starts.
C3_NoOverlappingBatchSent ==
    postCount > 0 =>
        \A tid \in SegIds : ~OverlapsIn(SortByStartIndex(ChangesOf(sentBatch, tid)))

\* ------------------------------------------------------------------ C4
\* C4: a batch holding a stale edit (oldText differs from the live segment
\* text at [startIndex, endIndex)) is rejected before any network call: no
\* request carrying such a batch is ever in flight.
C4_NoStaleBatchSent ==
    applyPc = "posting" =>
        \A i \in 1..Len(sentBatch) :
            ~TextMismatch(serverText[sentBatch[i].transcriptId], sentBatch[i])


\* ------------------------------------------------------------------ C5 .. C7
\* The sum of (measuredDuration - original duration) over the segments of S.
RECURSIVE SumOfDeltas(_)
SumOfDeltas(S) ==
    IF S = {} THEN 0
    ELSE LET i == CHOOSE j \in S : TRUE
         IN  (eSynth[i].measuredDuration - OldDuration(eSegments, i))
             + SumOfDeltas(S \ {i})

\* The timelines to judge: the one the reconciler computes from the results
\* once they are all there, and the one it handed on.
TimelinesAtHand ==
    (IF eState = "synthesizing" /\ AllResultsAvailable
     THEN {Reconcile(eSegments, Measured)} ELSE {})
    \cup (IF eTimeline # Null THEN {eTimeline[1]} ELSE {})

EntryLength(entry) == entry.outputEnd - entry.outputStart
SourceLength(entry) == entry.sourceSpan.end - entry.sourceSpan.start
RECURSIVE SumOfLengths(_)
SumOfLengths(timeline) ==
    IF timeline = <<>> THEN 0
    ELSE EntryLength(Head(timeline)) + SumOfLengths(Tail(timeline))

\* C5: the total output duration of the reconciled timeline, taken as the
\* end of its last entry and as the sum of its entries' lengths, is the
\* original duration plus the sum over the edited segments of
\* (measuredDuration - original segment duration); the assembled buffer has
\* that length.
C5_TotalDurationIsOriginalPlusDeltas ==
    /\ \A timeline \in TimelinesAtHand :
          /\ timeline[Len(timeline)].outputEnd = mediaDuration + SumOfDeltas(eEdited)
          /\ SumOfLengths(timeline) = mediaDuration + SumOfDeltas(eEdited)
    /\ eOutput # Null => eOutput[1].length = mediaDuration + SumOfDeltas(eEdited)

\* A timeline was handed on for a transcript with a silence gap, one segment
\* lengthened and one shortened.
C5_Witness ==
    /\ eTimeline # Null
    /\ \E i, j \in eEdited :
          /\ eSynth[i].measuredDuration > OldDuration(eSegments, i)
          /\ eSynth[j].measuredDuration < OldDuration(eSegments, j)
    /\ \E k \in 1..Len(eTimeline[1]) : eTimeline[1][k].seg = 0
    /\ SumOfDeltas(eEdited) # 0

\* The indices of the entries that stand for a segment, in timeline order.
SegmentEntries(timeline) ==
    SelectSeq([k \in 1..Len(timeline) |-> timeline[k].seg], LAMBDA x : x # 0)

\* C6: the reconciled timeline is contiguous (each entry ends where the next
\* starts), its first entry starts at 0, its entries stand for the segments
\* of the transcript in their order, each once, over source spans that
\* follow one another; the contiguity validation never fails.
C6_TimelineContiguousAndOrdered ==
    /\ \A timeline \in TimelinesAtHand :
          /\ timeline # <<>>
          /\ timeline[1].outputStart = 0
          /\ \A k \in 1..(Len(timeline) - 1) :
                /\ timeline[k].outputEnd = timeline[k + 1].outputStart
                /\ timeline[k].sourceSpan.end = timeline[k + 1].sourceSpan.start
          /\ \A k \in 1..Len(timeline) : timeline[k].outputStart <= timeline[k].outputEnd
          /\ SegmentEntries(timeline) = [i \in 1..Len(eSegments) |-> i]
    /\ \A r \in 1..Len(eReports) : eReports[r] # "ReconciliationError"

\* A timeline of three entries or more was spliced, with two edited segments,
\* one longer and one shorter than before.
C6_Witness ==
    /\ eState = "spliced"
    /\ Len(eTimeline[1]) >= 3
    /\ \E i, j \in eEdited :
          /\ i < j
          /\ eSynth[i].measuredDuration < OldDuration(eSegments, i)
          /\ eSynth[j].measuredDuration > OldDuration(eSegments, j)

\* The edited segments that end at or before source position pos.
EditedBefore(pos) == {i \in eEdited : eSegments[i].endTime <= pos}

\* C7: in the reconciled timeline an edited segment's span is as long as its
\* measuredDuration, an unedited segment and a silence gap are as long as in
\* the source, and every entry starts at its source start moved by the sum
\* of the deltas of the edited segments before it.
C7_SpansResizedAndShifted ==
    \A timeline \in TimelinesAtHand :
       \A k \in 1..Len(timeline) :
          LET entry == timeline[k]
          IN  /\ entry.seg \in eEdited =>
                    /\ entry.kind = "synthesized"
                    /\ EntryLength(entry) = eSynth[entry.seg].measuredDuration
              /\ entry.seg \notin eEdited =>
                    /\ entry.kind = "original"
                    /\ EntryLength(entry) = SourceLength(entry)
              /\ entry.outputStart =
                    entry.sourceSpan.start + SumOfDeltas(EditedBefore(entry.sourceSpan.start))

\* An edited segment grew; a silence gap and an unedited segment follow it
\* and have moved.
C7_Witness ==
    /\ eTimeline # Null
    /\ \E k \in 1..(Len(eTimeline[1]) - 2) :
          /\ eTimeline[1][k].seg \in eEdited
          /\ EntryLength(eTimeline[1][k]) > SourceLength(eTimeline[1][k])
          /\ eTimeline[1][k + 1].seg = 0
          /\ eTimeline[1][k + 2].seg \notin eEdited
          /\ eTimeline[1][k + 2].seg # 0
          /\ eTimeline[1][k + 2].outputStart > eTimeline[1][k + 2].sourceSpan.start

\* ------------------------------------------------------------------------ C8
\* C8: the reconciler and the splicer have run only with the synthesis
\* results of all edited segments at hand; once a synthesis call has failed
\* the batch is failed with one report, no synthesized audio is held, and
\* there is neither a timeline nor an output; no batch reports twice.
C8_AllOrNothingBatch ==
    /\ (eTimeline # Null \/ eOutput # Null \/ eState \in {"reconciled", "spliced", "done"})
          => /\ \A i \in eEdited : eSynth[i].st = "ok"
             /\ eAudio = eEdited
    /\ (\E i \in eEdited : eSynth[i].st = "failed")
          => /\ eState = "failed"
             /\ eReports = <<"SynthesisFailed">>
             /\ eAudio = {}
             /\ eTimeline = Null
             /\ eOutput = Null
    /\ Len(eReports) <= 1
    /\ eState = "done" => eReports = <<"success">>

\* One call failed after another had delivered its audio, and a third call
\* that was still running has returned since.
C8_Witness ==
    \E i, j \in eEdited :
       /\ eSynth[i].st = "failed"
       /\ eSynth[j].st = "ok"
       /\ \E k \in eEdited : eSynth[k].st = "cancelled"
       /\ eAudio = {}

NetworkOutcomes(log) ==
    SelectSeq(log, LAMBDA x : x \in {"ok", "transient", "permanent"})

\* C10: a call issues a further network call only after a transient failure
\* and at most MaxAttempts in all; a call that failed ends with its failure
\* and has issued no network call since; a call with an empty text or one
\* over the provider limit fails with no network call at all.
C10_RetryOnlyTransientBounded ==
    \A c \in Callers :
       LET call == gCalls[c]
       IN  /\ call.attempt <= MaxAttempts
           /\ \A k \in 1..(Len(call.log) - 1) : call.log[k] = "transient"
           /\ call.attempt =
                 Len(NetworkOutcomes(call.log)) + (IF call.st = "network" THEN 1 ELSE 0)
           /\ call.st = "backoff" =>
                 call.log # <<>> /\ call.log[Len(call.log)] = "transient"
           /\ (call.st = "failed" /\ call.log[Len(call.log)] = "transient")
                 => call.attempt = MaxAttempts
           /\ (call.st # "idle" /\ ~Valid(call.key))
                 => call.st = "failed" /\ call.log = <<"invalid">> /\ call.attempt = 0
           /\ \A key \in Keys : ~Valid(key) => gNetCalls[key] = 0

\* One call ran out of attempts on transient failures, one failed at once
\* on a permanent failure, one was refused for its text.
C10_Witness ==
    \E a, b, c \in Callers :
       /\ gCalls[a].st = "failed" /\ gCalls[a].attempt = MaxAttempts
       /\ gCalls[a].log = [k \in 1..MaxAttempts |-> "transient"]
       /\ gCalls[b].st = "failed" /\ gCalls[b].log = <<"permanent">>
       /\ gCalls[c].st = "failed" /\ gCalls[c].log = <<"invalid">>


\* ----------------------------------------------------------------------- C11
\* A step of the apply: it moves handleApplyChanges or the call of
\* ApiClient.request that carries its POST.
ApplyStep == applyPc' # applyPc \/ reqs'[ApplyReq] # reqs[ApplyReq]

NewTextShown == \A tid \in SegIds : Displayed(tid) = serverText[tid]

\* The pending list holds no edit made since the batch was sent.
NoEditSinceBatch ==
    \A i \in 1..Len(changes) : \E k \in 1..Len(sentBatch) : sentBatch[k] = changes[i]

\* C12: once an apply has succeeded (the server holds the new artifact and
\* the new text), whenever the transcript is rendered and no further edit
\* has been made, the project's media reference is the new artifact exactly
\* if the text shown is the new text.
C12_MediaAndTranscriptSwappedTogether ==
    (mediaVersion > 1 /\ TranscriptsRendered /\ NoEditSinceBatch)
       => (currentProject = mediaVersion <=> NewTextShown)


\* ----------------------------------------------------------------------- C13
\* C13: at most one POST .../apply-changes is sent per apply the user has
\* started, whatever the responses are.
C13_AtMostOnePostPerApply == postCount <= applyCount


\* ----------------------------------------------------------------------- C14
TerminalResults ==
    {"success", "UnknownSegment", "OverlappingEdits", "TextMismatch",
     "SynthesisFailed", "Network error", "Unauthorized", "Authentication required"}

\* While an apply is under way it has delivered no terminal result and
\* isApplyingChanges is true; when it is over it has delivered exactly one,
\* a success or a failure, and isApplyingChanges is false; an apply whose
\* request has failed is over.
OneResultSoFar ==
    /\ applyPc # "idle" =>
          /\ resultCount = applyCount - 1
          /\ lastResult = "pending"
          /\ isApplyingChanges
    /\ applyPc = "idle" =>
          /\ resultCount = applyCount
          /\ applyCount > 0 => lastResult \in TerminalResults
          /\ ~isApplyingChanges
    /\ (reqs[ApplyReq].pc = "done" /\ reqs[ApplyReq].result # "ok") =>
          /\ applyPc = "idle"
          /\ lastResult \in TerminalResults \ {"success"}
    /\ lastResult = "success" => reqs[ApplyReq].result = "ok"

\* An apply that passes through a token refresh and a second POST has
\* ended with a failure, its only result.
C14_Witness ==
    /\ applyCount = 1
    /\ resultCount = 1
    /\ applyPc = "idle"
    /\ reqs[ApplyReq].sends = 2
    /\ lastResult = "Unauthorized"
    /\ ~isApplyingChanges

\* Every request is answered or fails in the end: the POST, the token
\* refresh and the GET of refreshCurrentProject.
SpecFair ==
    /\ Spec
    /\ WF_vars(ApplySucceeded \/ \E err \in TerminalResults : ApplyFailed(err))
    /\ WF_vars(\E outcome \in RefreshOutcomes : ApplyRefreshAnswered(outcome))
    /\ WF_vars(\E ok \in BOOLEAN : RefreshDone(ok))

\* C14: an apply that has passed the entry guard has delivered no terminal
\* result while it is under way and exactly one, success or failure, when it
\* is over; isApplyingChanges is true in between and false afterwards; and
\* with its requests answered every apply comes to its result.
C14_OneTerminalResultPerApply ==
    /\ []OneResultSoFar
    /\ (applyPc # "idle") ~> (applyPc = "idle" /\ resultCount = applyCount)


\* ----------------------------------------------------------------------- C19
\* The edits of the pending list that were not in the batch of the request.
UnsentEdits ==
    SelectSeq(changes, LAMBDA c : \A k \in 1..Len(sentBatch) : sentBatch[k].id # c.id)

\* C19: the step that completes a successful apply removes no edit that
\* was not part of the batch sent: an edit saved while the request was in
\* flight is in the pending list afterwards.
C19_UnsentEditsSurviveSuccess ==
    [][(applyPc = "refreshing" /\ applyPc' = "idle")
       => \A i \in 1..Len(UnsentEdits) :
             \E j \in 1..Len(changes') : changes'[j] = UnsentEdits[i]]_vars

\* ----------------------------------------------------------------------- C20
\* C20: the range recorded for a selection that covers [p, p + n) of the
\* displayed text is [p, p + n), and no recorded edit has a negative
\* startIndex.
C20_RecordedRangeIsSelectedRange ==
    /\ editingState # Null =>
          /\ editingState[1].startIndex = editingState[1].position
          /\ editingState[1].endIndex =
                editingState[1].position + Len(editingState[1].selectedText)
    /\ \A i \in 1..Len(changes) : changes[i].startIndex >= 0


\* ------------------------------------------------------------------ C17, C18
\* C17: a call of ApiClient.request runs refreshToken at most once and sends
\* its request at most twice, the second time only after a refresh that
\* issued a token and with that token in the header; a call ended by a 401
\* either skipped auth or got the 401 on its retry; a call that skips auth
\* never refreshes and never retries.
C17_OneRefreshOneRetry ==
    \A r \in Reqs :
       LET req == reqs[r]
       IN  /\ req.refreshes <= 1
           /\ req.sends <= 2
           /\ req.sends = 2 =>
                 /\ req.refreshes = 1
                 /\ req.issued # 0
                 /\ req.bearer = req.issued
           /\ req.pc = "refresh" => req.sends = 1 /\ req.refreshes = 1
           /\ req.result = "error401" =>
                 /\ req.pc = "done"
                 /\ req.skipAuth \/ req.sends = 2
           /\ req.skipAuth => req.refreshes = 0 /\ req.sends <= 1

\* One call got 401 twice, around a successful refresh, and returned the
\* failure; another skipped auth, got 401 and returned it without a refresh.
C17_Witness ==
    \E a, b \in Reqs :
       /\ reqs[a].result = "error401" /\ reqs[a].sends = 2
       /\ reqs[a].refreshes = 1 /\ reqs[a].bearer = reqs[a].issued
       /\ reqs[b].result = "error401" /\ reqs[b].skipAuth /\ reqs[b].refreshes = 0

\* Call r returns 'Authentication required' in this step.
ReturnsAuthenticationRequired(r) ==
    /\ reqs[r].result # "Authentication required"
    /\ reqs'[r].result = "Authentication required"

\* Call r learns in this step that its refresh has failed.
RefreshFails(r) ==
    \/ reqs[r].pc = "refresh" /\ reqs'[r].pc # "refresh" /\ reqs'[r].issued = 0
    \/ reqs[r].pc = "fetch" /\ reqs'[r].refreshes = 1 /\ reqs'[r].pc # "refresh"

\* C18: the step in which a call's token refresh fails (no refresh token
\* stored, non-ok response, body without access_token, network error) ends
\* the call with 'Authentication required', success = false, without
\* sending the request again, removes auth_token and refresh_token from
\* local storage and leaves the auth store logged out.
C18_FailedRefreshLogsOut ==
    /\ [][\A r \in Reqs :
             /\ RefreshFails(r) => ReturnsAuthenticationRequired(r)
             /\ ReturnsAuthenticationRequired(r) =>
                   /\ reqs'[r].pc = "done"
                   /\ reqs'[r].sends = reqs[r].sends
                   /\ auth_token' = 0 /\ refresh_token' = 0
                   /\ authUser' = 0 /\ isAuthenticated' = FALSE]_vars
    /\ [](\A r \in Reqs :
             reqs[r].result = "Authentication required" =>
                reqs[r].sends = 1 /\ reqs[r].refreshes = 1 /\ ~reqs[r].skipAuth)

\* One call has failed on the answer to POST /auth/refresh, another on the
\* missing refresh token; storage is empty and the store logged out.
C18_Witness ==
    /\ \E a, b \in Reqs :
          /\ reqs[a].result = "Authentication required" /\ reqs[a].sentRefresh # 0
          /\ reqs[b].result = "Authentication required" /\ reqs[b].sentRefresh = 0
    /\ auth_token = 0 /\ refresh_token = 0
    /\ authUser = 0 /\ ~isAuthenticated


\* ----------------------------------------------------------------------- C16
\* The parts of the preview of segment tid.
PreviewOf(tid) == applyChangesToText(TextOf(tid), ChangesOf(changes, tid))

ChangedParts(parts) == SelectSeq(parts, LAMBDA part : part.isChanged)

StartsWith(s, pre) == Len(s) >= Len(pre) /\ SubSeq(s, 1, Len(pre)) = pre

\* http:// or https://, a host of letters and digits that starts with a
\* letter, then the end of the string or a path or a query.
FullHttpUrl(p) ==
    \E pre \in {Http \o <<":", "/", "/">>, Https \o <<":", "/", "/">>} :
        /\ StartsWith(p, pre)
        /\ Len(p) > Len(pre)
        /\ p[Len(pre) + 1] \in Alpha
        /\ LET rest == SubSeq(p, Len(pre) + 1, Len(p))
               k == FirstOf(rest, {"/", "?"})
               host == IF k = 0 THEN rest ELSE SubSeq(rest, 1, k - 1)
           IN  \A i \in 1..Len(host) : host[i] \in Alpha \cup Digit

\* A path without a scheme.
RelativePath(p) == p # <<>> /\ FirstOf(p, {":"}) = 0

Idempotent(p) == buildMediaUrl(buildMediaUrl(p)) = buildMediaUrl(p)

\* The path received and what mapApiProjectToProject made of it.
UrlContract ==
    video_url # Null =>
        LET p == video_url[1]
        IN  /\ p = <<>> => (buildMediaUrl(p) = <<>> /\ videoUrl = Null)
            /\ (FullHttpUrl(p) /\ videoUrl # Null) => videoUrl = Some(p)
            /\ (RelativePath(p) /\ videoUrl # Null) =>
                  videoUrl = Some(baseUrl \o (IF Head(p) = "/" THEN p ELSE <<"/">> \o p))
            /\ Idempotent(p)

\* C15: buildMediaUrl returns a full http(s) URL unchanged, prepends the API
\* base URL to a relative path and returns the empty string for an empty
\* path; it is idempotent on every path, so that the second application, in
\* ProjectCard and in buildMediaUrlWithCacheBuster, leaves the URL that
\* mapApiProjectToProject stored as it is (the player adding its ?t= or &t=).
C15_BuildMediaUrlIdempotent ==
    /\ UrlContract
    /\ cardVideoUrl # Null => cardVideoUrl = videoUrl
    /\ playerVideoUrl # Null =>
          \E sep \in {"?", "&"} : \E stamp \in 1..MaxStamp :
              playerVideoUrl[1] = videoUrl[1] \o <<sep, "t", "=">> \o ToDecimal(stamp)

\* A relative path got the configured base URL in front, and both components
\* have rendered the stored URL.
C15_Witness ==
    /\ VITE_API_BASE_URL \notin {Null, Some(<<>>)}
    /\ video_url = Some(<<"/", "a", "?">>)
    /\ videoUrl = Some(VITE_API_BASE_URL[1] \o <<"/", "a", "?">>)
    /\ cardVideoUrl = videoUrl
    /\ playerVideoUrl = Some(videoUrl[1] \o <<"&", "t", "=", "1", "1">>)


\* ----------------------------------------------------------------------- C22
\* The calls whose POST /auth/refresh has been sent and not yet answered.
RefreshesInFlight == {r \in Reqs : reqs[r].pc = "refresh"}

\* C22: at most one POST /auth/refresh is in flight at any time, however
\* many authenticated requests have received a 401.
C22_AtMostOneRefreshInFlight == Cardinality(RefreshesInFlight) <= 1


\* ----------------------------------------------------------------------- C21
\* C21: after logout the auth store stays logged out until the next
\* successful login or register: no response of a call that was in flight
\* when logout ran sets user to a non-null value or isAuthenticated to true.
C21_LoggedOutUntilNextLogin ==
    sessionEnded => (authUser = 0 /\ ~isAuthenticated)

\* ----------------------------------------------------------------------- C24
\* C24: no route is rendered before the start-up check has finished, and
\* whenever ProjectsRoute is rendered isAuthenticated is true and an
\* auth_token is present in local storage.
C24_ProtectedRouteNeedsSession ==
    ProjectsRouteRendered => (isAuthChecked /\ isAuthenticated /\ auth_token # 0)


\* ----------------------------------------------------------------------- C23
\* Every call of fetchProjects has been answered and the last one issued
\* was answered with success.
AllProjectsAnswered ==
    /\ fetchCalls # <<>>
    /\ \A i \in 1..Len(fetchCalls) : fetchCalls[i].pc # "awaiting"
    /\ fetchCalls[Len(fetchCalls)].pc = "ok"

\* C23: when several fetchProjects calls overlap, then after all responses
\* have arrived the store's projects, filters and currentPage are those of
\* the most recently issued call, whatever the order of the responses.
C23_LastIssuedFetchWins ==
    AllProjectsAnswered =>
        LET last == fetchCalls[Len(fetchCalls)]
        IN  /\ projectList = Some(ItemsFor(last.page, last.filters))
            /\ projFilters = last.filters
            /\ currentPage = last.page

\* ----------------------------------------------------------------------- C25
\* C25: when ProjectDetailView cannot load the project of the route it goes
\* to the projects list; it never renders a project whose id differs from
\* the route's projectId.
C25_FailedLoadRedirects ==
    DetailShowsProject => currentProjectId = routeProjectId

====
